---------------------------- MODULE Spec2Model ----------------------------
(***************************************************************************)
(* Content lifecycle, publish worker and API operations of the LinkedIn    *)
(* content manager (src/app/worker.py, src/app/crud.py,                     *)
(* src/app/routers/linkedin.py, src/main.py).                               *)
(*                                                                         *)
(* The persistence store is shared by every server process.  In production *)
(* main.py starts WORKER_CONCURRENCY uvicorn processes and each of them     *)
(* starts its own worker_loop (lifespan); the API handlers of any process   *)
(* commit between two database steps of a publish cycle.  A publish cycle   *)
(* is therefore modelled step by step (one action per database or external *)
(* interaction), an API handler as one transaction.                         *)
(*                                                                         *)
(* Time is counted in minutes.  None/NULL is the value NULL.                *)
(***************************************************************************)
EXTENDS Integers, Sequences, FiniteSets, TLC

\* ------------------------------------------------------------ bounds
MaxPosts == 2
MaxTicks == 1
MaxRequests == 3
MaxCreations == 2
MaxItems == 2
MaxCycles == 3
MaxSlots == 2
MaxWeeks == 1
MaxDaysAhead == 2
MaxSyncCycles == 1
MaxExtra == 1
MaxBatch == 3
MaxLimit == 2
MaxPeriod == 2
MaxTime == 5
MaxChecks == 4

\* ------------------------------------------------- program constants
\* timedelta(minutes=5): the look-ahead and the look-behind of the due query
WINDOW_MINUTES == 5
\* WORKER_CONCURRENCY: uvicorn processes in production, one worker_loop each
WORKER_CONCURRENCY == 2
\* timedelta(days=1), in minutes
MINUTES_PER_DAY == 1440
\* datetime.replace(hour=..., minute=...): minutes of an hour
MINUTES_PER_HOUR == 60

NULL == 0 - 1
UNSET == 0 - 2

Users == {1}
Workers == 1..WORKER_CONCURRENCY
PostIds == 1..MaxPosts

\* models.PostStatus
DRAFT == "draft"
SCHEDULED == "scheduled"
PUBLISHED == "published"
FAILED == "failed"
PostStatus == {DRAFT, SCHEDULED, PUBLISHED, FAILED}

\* The clock starts late enough for the look-behind bound to be a time >= 0.
StartTime == WINDOW_MINUTES
\* Times a caller asks for: on and next to both bounds of the first due window.
SchedTimes == {StartTime - WINDOW_MINUTES + 1, StartTime + WINDOW_MINUTES + 1}
\* Calendar days and times of day (minutes after midnight) of a schedule request.
ScheduleDates == {0}
\* a configured slot "HH:MM" as the two texts time_slot.split(":") returns, each a
\* sequence of decimal digits: "00:01" is <<<<0, 0>>, <<0, 1>>>>
TwoDigits(n) == <<n \div 10, n % 10>>
TimeSlots == {<<TwoDigits(0), TwoDigits(m)>> : m \in SchedTimes}
ScheduleTypes == {"evenly_spaced"}
\* expires_in of a token response, in minutes
ExpiresIn == {1}
\* identifiers the external platform returns for a created share
ResponseIds == {1}
\* access/refresh token values: the one the OAuth callback stores, the one a refresh returns
CALLBACK_TOKEN == "t1"
REFRESHED_TOKEN == "t2"

VARIABLES
    posts,          \* table posts: sequence of rows, the id is the index
    users,          \* table users: the LinkedIn columns of each user
    analytics,      \* table analytics: sequence of rows
    now,            \* datetime.utcnow(), minutes
    pc,             \* per worker loop: position in process_scheduled_posts
    cycle_now,      \* per worker loop: now of the running cycle
    scheduled_posts,\* per worker loop: the rows the due query returned
    todo,           \* per worker loop: rows of scheduled_posts not yet iterated
    post,           \* per worker loop: the row of the running iteration (0: none)
    response,       \* per worker loop: what the publish call returned
    session_ok,     \* per worker loop: FALSE after a failed flush (no rollback is issued)
    item_log,       \* history, per worker loop and row of the cycle: what the iteration did
    created,        \* history, per row: external shares created since its last scheduling
    requests,       \* history: number of API requests served
    published_by_worker, \* history: rows whose stored Published was written by a worker loop
    running,        \* worker.running: the keep-running flag of worker_loop
    loop_pc,        \* worker_loop: position of the loop task ("created": not started)
    shutdown,       \* main.lifespan: worker_task.cancel() was called
    items_left,     \* worker_loop: due items the running publish phase has not reached
    in_flight,      \* worker_loop: the running item ("none"; "called": published, not committed)
    cycles,         \* history: cycles the loop started (saturates at MaxCycles)
    raised,         \* history: the last cycle that raised to the loop (0: none)
    signalled,      \* history: in_flight at the moment shutdown was requested ("no": not requested)
    request,        \* crud.bulk_schedule_posts: the arguments of a call, and the rows its query returned
    result,         \* crud.bulk_schedule_posts: what the call returned to the router
    sync_pc,        \* sync_post_analytics: position ("idle": no cycle is running)
    sync_now,       \* sync_post_analytics: now of the running (or last) cycle
    posts_to_sync,  \* sync_post_analytics: the rows the query returned, in their order
    user_at,        \* sync_post_analytics: index of the running group in posts_by_user
    post_at,        \* sync_post_analytics: index of the running row in its group
    sync_session,   \* sync_post_analytics: "failed" after a failed flush (no rollback is issued)
    uncommitted,    \* sync_post_analytics: what the session holds and has not committed
    sync_log,       \* history, per row of the cycle: the fetch and what the iteration did
    sync_refreshes, \* history, per user: refresh calls of the cycle
    sync_cycles,    \* history: cycles started
    settings,       \* config.settings: the rate limit settings, and whether redis_client is set
    current_time,   \* time.time(), seconds
    in_memory_rate_limits, \* rate_limit.in_memory_rate_limits: client_id -> (count, window_start)
    redis_zsets,    \* Redis: the sorted set "ratelimit:<client_id>" of each client, as its scores
    verdicts        \* history: the client, time, backend and answer of each rate limit check

vars == <<posts, users, analytics, now, pc, cycle_now, scheduled_posts, todo, post,
          response, session_ok, item_log, created, requests,
          published_by_worker, running, loop_pc, shutdown, items_left, in_flight,
          cycles, raised, signalled, request, result, sync_pc, sync_now,
          posts_to_sync, user_at, post_at, sync_session, uncommitted, sync_log,
          sync_refreshes, sync_cycles, settings, current_time, in_memory_rate_limits,
          redis_zsets, verdicts>>

db_vars == <<posts, users, analytics>>
worker_vars == <<pc, cycle_now, scheduled_posts, todo, post, response, session_ok, item_log>>
loop_vars == <<running, loop_pc, shutdown, items_left, in_flight, cycles, raised, signalled>>
allocator_vars == <<request, result>>
sync_vars == <<sync_pc, sync_now, posts_to_sync, user_at, post_at, sync_session,
               uncommitted, sync_log, sync_refreshes, sync_cycles>>
limiter_vars == <<settings, current_time, in_memory_rate_limits, redis_zsets, verdicts>>
service_vars == <<db_vars, now, worker_vars, created, requests, published_by_worker>>

\* ------------------------------------------------------------ helpers
Min(a, b) == IF a < b THEN a ELSE b

Range(s) == {s[i] : i \in DOMAIN s}

\* every ordering of a finite set: a query without ORDER BY returns rows in any order
Orderings(S) == {s \in [1..Cardinality(S) -> S] : Range(s) = S}

PostExists(p) == p \in DOMAIN posts

\* db.query(models.Analytics).filter(models.Analytics.post_id == p).first()
AnalyticsOf(p) == {i \in DOMAIN analytics : analytics[i].post_id = p}

NewUser == [linkedin_access_token |-> "none", linkedin_refresh_token |-> "none",
            linkedin_token_expires_at |-> NULL]

NewPost(u, t) == [author_id |-> u,
                  status |-> IF t # NULL THEN SCHEDULED ELSE DRAFT,
                  scheduled_time |-> t,
                  published_time |-> NULL,
                  linkedin_post_id |-> NULL,
                  linkedin_share_url |-> NULL]

\* history bookkeeping: an explicit (re-)scheduling of row p starts a new count
Rescheduled(c, S) == [p \in PostIds |-> IF p \in S THEN 0 ELSE c[p]]

\* history bookkeeping: a write of the status column by anything but a worker's publish
Overwritten(S) == published_by_worker \ S

\* no response held
NoResponse == [ok |-> FALSE, id |-> NULL, shareUrl |-> NULL]

\* no publishing cycle is running and nothing was published yet
InitIdle ==
    /\ pc = [w \in Workers |-> "idle"]
    /\ cycle_now = [w \in Workers |-> NULL]
    /\ scheduled_posts = [w \in Workers |-> {}]
    /\ todo = [w \in Workers |-> {}]
    /\ post = [w \in Workers |-> 0]
    /\ response = [w \in Workers |-> NoResponse]
    /\ session_ok = [w \in Workers |-> TRUE]
    /\ item_log = [w \in Workers |-> <<>>]
    /\ created = [p \in PostIds |-> 0]
    /\ published_by_worker = {}

\* everything but the table posts
InitRest ==
    /\ requests = 0
    /\ users = [u \in Users |-> NewUser]
    /\ analytics = <<>>
    /\ now = StartTime
    /\ InitIdle

InitService ==
    /\ posts = <<>>
    /\ InitRest

\* worker_loop before its first iteration
InitLoop ==
    /\ running = TRUE
    /\ loop_pc = "created"
    /\ shutdown = FALSE
    /\ items_left = 0
    /\ in_flight = "none"
    /\ cycles = 0
    /\ raised = 0
    /\ signalled = "no"

NoConfig ==
    [start_date |-> 0, end_date |-> 0, time_slots |-> <<>>, days |-> <<>>,
     weeks_ahead |-> 0, days_ahead |-> 0]
NoRequest ==
    [post_ids |-> <<>>, rows |-> <<>>, schedule_type |-> "none", cfg |-> NoConfig,
     now |-> NULL]
NoResult == [status |-> "none", schedule |-> <<>>, updated |-> {}]

\* no bulk scheduling call is being evaluated
InitAllocatorIdle ==
    /\ request = NoRequest
    /\ result = NoResult

\* no analytics cycle was started
NoUncommitted == [analytics |-> <<>>, users |-> <<>>]
InitSyncIdle ==
    /\ sync_pc = "idle"
    /\ sync_now = NULL
    /\ posts_to_sync = <<>>
    /\ user_at = 0
    /\ post_at = 0
    /\ sync_session = "ok"
    /\ uncommitted = NoUncommitted
    /\ sync_log = <<>>
    /\ sync_refreshes = <<>>
    /\ sync_cycles = 0

\* no request went through the rate limit middleware
NoSettings ==
    [RATE_LIMIT_REQUESTS |-> 0, RATE_LIMIT_PERIOD_SECONDS |-> 0, redis_client |-> FALSE]
NoEntries == [client_id \in {} |-> 0]
InitLimiterIdle ==
    /\ settings = NoSettings
    /\ current_time = 0
    /\ in_memory_rate_limits = NoEntries
    /\ redis_zsets = NoEntries
    /\ verdicts = <<>>

Init ==
    /\ InitService
    /\ InitLoop
    /\ InitLimiterIdle
    /\ InitAllocatorIdle
    /\ InitSyncIdle


\* a request is served (at most MaxRequests of them in a behaviour)
Served ==
    /\ requests < MaxRequests
    /\ requests' = requests + 1
    /\ UNCHANGED <<loop_vars, allocator_vars, sync_vars, limiter_vars>>

\* ------------------------------------------------------ API: posts
\* crud.create_post: Draft, or Scheduled when a time is supplied
create_post(u, t) ==
    /\ Served
    /\ Len(posts) < MaxPosts
    /\ posts' = Append(posts, NewPost(u, t))
    /\ UNCHANGED <<users, analytics, now, worker_vars, created, published_by_worker>>

\* crud.update_post with update_data = post.dict(exclude_unset=True);
\* st = "unset" / t = UNSET: the field is not in the request; t = NULL: sent as null
UpdatedStatus(old, st, t) ==
    IF t # UNSET /\ t # NULL THEN SCHEDULED
    ELSE IF st # "unset" THEN st
    ELSE old

UpdatedTime(old, t) == IF t # UNSET THEN t ELSE old

update_post(u, p, st, t) ==
    /\ Served
    /\ PostExists(p)
    /\ posts[p].author_id = u
    /\ LET new_status == UpdatedStatus(posts[p].status, st, t)
       IN  /\ posts' = [posts EXCEPT ![p].status = new_status,
                                     ![p].scheduled_time = UpdatedTime(@, t)]
           /\ created' = IF new_status = SCHEDULED /\ (st # "unset" \/ t # UNSET)
                         THEN Rescheduled(created, {p}) ELSE created
           /\ published_by_worker' = IF new_status # posts[p].status
                                     THEN Overwritten({p}) ELSE published_by_worker
    /\ UNCHANGED <<users, analytics, now, worker_vars>>

\* crud.publish_post: the caller reports a share it created itself
publish_post(u, p, linkedin_post_id, linkedin_share_url) ==
    /\ Served
    /\ PostExists(p)
    /\ posts[p].author_id = u
    /\ posts' = [posts EXCEPT ![p].status = PUBLISHED,
                              ![p].published_time = now,
                              ![p].linkedin_post_id = linkedin_post_id,
                              ![p].linkedin_share_url = linkedin_share_url]
    /\ published_by_worker' = Overwritten({p})
    /\ UNCHANGED <<users, analytics, now, worker_vars, created>>

\* ------------------------------------------- API: bulk scheduling
\* int(text) of a text of decimal digits ("09" and "9" are both 9)
RECURSIVE int(_)
int(digits) ==
    IF digits = <<>> THEN 0
    ELSE 10 * int(SubSeq(digits, 1, Len(digits) - 1)) + digits[Len(digits)]

\* current_date.replace(hour=hour, minute=minute), with
\* hour, minute = int(time_parts[0]), int(time_parts[1])
AtSlot(date, time_parts) ==
    date * MINUTES_PER_DAY + int(time_parts[1]) * MINUTES_PER_HOUR + int(time_parts[2])

\* posts_per_day <= len(time_slots), posts_per_day = len(posts) / days_between
PostsPerDayFits(n, days_between, time_slots) ==
    IF days_between > 0 THEN n <= Len(time_slots) * days_between ELSE TRUE

\* a loop that goes back to the first slot without moving to the next day
RECURSIVE EvenlySparse_same_day(_, _, _, _, _)
EvenlySparse_same_day(ids, current_date, time_slot_index, end_date, time_slots) ==
    IF ids = <<>> \/ current_date > end_date THEN <<>>
    ELSE LET last == time_slot_index + 1 >= Len(time_slots)
         IN  <<<<Head(ids), AtSlot(current_date, time_slots[time_slot_index + 1])>>>>
             \o EvenlySparse_same_day(Tail(ids), current_date,
                                      IF last THEN 0 ELSE time_slot_index + 1,
                                      end_date, time_slots)

\* the loop of the branch posts_per_day <= len(time_slots)
RECURSIVE EvenlySparse(_, _, _, _, _)
EvenlySparse(ids, current_date, time_slot_index, end_date, time_slots) ==
    IF ids = <<>> \/ current_date > end_date THEN <<>>
    ELSE LET last == time_slot_index + 1 >= Len(time_slots)
         IN  <<<<Head(ids), AtSlot(current_date, time_slots[time_slot_index + 1])>>>>
             \o EvenlySparse(Tail(ids),
                             IF last THEN current_date + 1 ELSE current_date,
                             IF last THEN 0 ELSE time_slot_index + 1,
                             end_date, time_slots)

\* the loop of the else branch: day_offset = int(i * days_per_post), first slot only
EvenlyDense(ids, start_date, days_between, time_slots) ==
    [k \in 1..Len(ids) |->
        <<ids[k], AtSlot(start_date + ((k - 1) * days_between) \div Len(ids),
                         time_slots[1])>>]

EvenlySpaced(ids, start_date, end_date, time_slots) ==
    LET days_between == end_date - start_date + 1
    IN  IF PostsPerDayFits(Len(ids), days_between, time_slots)
        THEN EvenlySparse(ids, start_date, 0, end_date, time_slots)
        ELSE EvenlyDense(ids, start_date, days_between, time_slots)

\* a test that lets the present moment pass as a future one
InFuture_inclusive(scheduled_time, at) == scheduled_time >= at

\* "if scheduled_time > now"
InFuture(scheduled_time, at) == scheduled_time > at

\* now.date(), and date.weekday() (0 = Monday); day 0 of the model is a Monday
DateOf(at) == at \div MINUTES_PER_DAY
DAYS_PER_WEEK == 7
Weekday(date) == date % DAYS_PER_WEEK

day_map ==
    [day \in {"Monday", "Tuesday", "Wednesday", "Thursday", "Friday", "Saturday",
              "Sunday"} |->
        CASE day = "Monday" -> 0 [] day = "Tuesday" -> 1 [] day = "Wednesday" -> 2
          [] day = "Thursday" -> 3 [] day = "Friday" -> 4 [] day = "Saturday" -> 5
          [] day = "Sunday" -> 6]

\* [day_map[day] for day in days if day in day_map]
Weekdays(days) == {day_map[day] : day \in Range(days) \cap DOMAIN day_map}

\* the slots of one date that pass "if scheduled_time > now", in the order of time_slots
FutureSlots(date, time_slots, at) ==
    SelectSeq([i \in 1..Len(time_slots) |-> AtSlot(date, time_slots[i])],
              LAMBDA scheduled_time : InFuture(scheduled_time, at))

\* the loop "while current_date <= end_date" that fills possible_dates
RECURSIVE PossibleDates(_, _, _, _, _)
PossibleDates(current_date, end_date, weekdays, time_slots, at) ==
    IF current_date > end_date THEN <<>>
    ELSE (IF Weekday(current_date) \in weekdays
          THEN FutureSlots(current_date, time_slots, at)
          ELSE <<>>)
         \o PossibleDates(current_date + 1, end_date, weekdays, time_slots, at)

\* the branch "specific_days": the i-th row gets possible_dates[i] if there is one
SpecificDays(ids, days, time_slots, weeks_ahead, at) ==
    LET possible_dates ==
            PossibleDates(DateOf(at), DateOf(at) + DAYS_PER_WEEK * weeks_ahead,
                          Weekdays(days), time_slots, at)
    IN  [i \in 1..Min(Len(ids), Len(possible_dates)) |-> <<ids[i], possible_dates[i]>>]

optimal_hours == <<9, 12, 17, 20>>

\* the branch "optimal_times": "for day in range(days_ahead): for hour in
\* optimal_hours", with both breaks on post_index >= len(posts); scheduled_time is
\* the date with replace(hour=hour, minute=0)
RECURSIVE OptimalTimes(_, _, _, _, _, _)
OptimalTimes(ids, post_index, day, hour_index, days_ahead, at) ==
    IF day >= days_ahead THEN <<>>
    ELSE IF hour_index > Len(optimal_hours) \/ post_index >= Len(ids)
    THEN IF post_index >= Len(ids) THEN <<>>
         ELSE OptimalTimes(ids, post_index, day + 1, 1, days_ahead, at)
    ELSE LET scheduled_time == (DateOf(at) + day) * MINUTES_PER_DAY
                               + optimal_hours[hour_index] * MINUTES_PER_HOUR
         IN  IF InFuture(scheduled_time, at)
             THEN <<<<ids[post_index + 1], scheduled_time>>>>
                  \o OptimalTimes(ids, post_index + 1, day, hour_index + 1, days_ahead, at)
             ELSE OptimalTimes(ids, post_index, day, hour_index + 1, days_ahead, at)

\* schedule_times of crud.bulk_schedule_posts at the time "at"; an unrecognized tag
\* matches no branch
ScheduleTimes(ids, schedule_type, cfg, at) ==
    CASE schedule_type = "evenly_spaced" ->
           EvenlySpaced(ids, cfg.start_date, cfg.end_date, cfg.time_slots)
      [] schedule_type = "specific_days" ->
           SpecificDays(ids, cfg.days, cfg.time_slots, cfg.weeks_ahead, at)
      [] schedule_type = "optimal_times" ->
           OptimalTimes(ids, 0, 0, 1, cfg.days_ahead, at)
      [] OTHER -> <<>>

\* the call raises: ZeroDivisionError at "len(posts) / days_between", IndexError at
\* "time_slots[0]" of the else branch
ScheduleRaises(n, schedule_type, cfg) ==
    /\ schedule_type = "evenly_spaced"
    /\ LET days_between == cfg.end_date - cfg.start_date + 1
       IN  \/ days_between = 0
           \/ ~PostsPerDayFits(n, days_between, cfg.time_slots) /\ cfg.time_slots = <<>>

ScheduleConfigs ==
    [start_date : ScheduleDates, end_date : ScheduleDates,
     time_slots : UNION {[1..n -> TimeSlots] : n \in 1..2}]

\* the rows of "update posts with scheduled times"
Assigned(schedule_times) == {schedule_times[i][1] : i \in DOMAIN schedule_times}

AssignedTime(schedule_times, p) ==
    LET i == CHOOSE j \in DOMAIN schedule_times : schedule_times[j][1] = p
    IN  schedule_times[i][2]

\* an update loop that sets the status of every row it is given
UpdatedPosts_all_rows(table, schedule_times) ==
    [p \in DOMAIN table |->
        IF p \in Assigned(schedule_times)
        THEN [table[p] EXCEPT !.scheduled_time = AssignedTime(schedule_times, p),
                              !.status = SCHEDULED]
        ELSE [table[p] EXCEPT !.status = SCHEDULED]]

\* "for post_id, scheduled_time in schedule_times": the row gets the time and the
\* status Scheduled; db.commit()
UpdatedPosts(table, schedule_times) ==
    [p \in DOMAIN table |->
        IF p \in Assigned(schedule_times)
        THEN [table[p] EXCEPT !.scheduled_time = AssignedTime(schedule_times, p),
                              !.status = SCHEDULED]
        ELSE table[p]]

bulk_schedule_posts(u, post_ids, schedule_type, cfg) ==
    LET rows == {p \in Range(post_ids) : PostExists(p) /\ posts[p].author_id = u}
    IN  /\ Served
        /\ rows # {}
        /\ Cardinality(rows) = Len(post_ids)
        /\ ~ScheduleRaises(Len(post_ids), schedule_type, cfg)
        /\ \E order \in Orderings(rows) :
             LET schedule_times == ScheduleTimes(order, schedule_type, cfg, now)
             IN  /\ posts' = UpdatedPosts(posts, schedule_times)
                 /\ created' = Rescheduled(created, Assigned(schedule_times))
                 /\ published_by_worker' =
                       Overwritten({p \in Assigned(schedule_times) :
                                        posts[p].status # SCHEDULED})
        /\ UNCHANGED <<users, analytics, now, worker_vars>>

\* --------------------------------------------------- API: LinkedIn
\* routers/linkedin.linkedin_callback: the account is connected
linkedin_callback(u, refresh_token, expires_in) ==
    /\ Served
    /\ users' = [users EXCEPT ![u] =
                    [linkedin_access_token |-> CALLBACK_TOKEN,
                     linkedin_refresh_token |-> refresh_token,
                     linkedin_token_expires_at |-> now + expires_in]]
    /\ UNCHANGED <<posts, analytics, now, worker_vars, created, published_by_worker>>

\* routers/linkedin.disconnect_linkedin
disconnect_linkedin(u) ==
    /\ Served
    /\ users[u] # NewUser
    /\ users' = [users EXCEPT ![u] = NewUser]
    /\ UNCHANGED <<posts, analytics, now, worker_vars, created, published_by_worker>>

\* linkedin_token_expires_at and linkedin_token_expires_at <= now
TokenExpired(user, at) ==
    user.linkedin_token_expires_at # NULL /\ user.linkedin_token_expires_at <= at

\* a refresh that stores the expiry and the refresh token but keeps the access token
RefreshedUser_old_access_token(user, token_data, at) ==
    [linkedin_access_token |-> user.linkedin_access_token,
     linkedin_refresh_token |-> IF token_data.refresh_token = "none"
                                THEN user.linkedin_refresh_token
                                ELSE token_data.refresh_token,
     linkedin_token_expires_at |-> at + token_data.expires_in]

\* the three assignments after a refresh_access_token call that returned token_data;
\* token_data.get("refresh_token", old) keeps the old refresh token
RefreshedUser(user, token_data, at) ==
    [linkedin_access_token |-> token_data.access_token,
     linkedin_refresh_token |-> IF token_data.refresh_token = "none"
                                THEN user.linkedin_refresh_token
                                ELSE token_data.refresh_token,
     linkedin_token_expires_at |-> at + token_data.expires_in]

\* what linkedin_api.refresh_access_token does: it raises ("error": raise_for_status),
\* or returns token_data, which may lack "access_token" or "expires_in"
TokenOutcomes ==
    [kind : {"ok", "no_expires_in"}, access_token : {REFRESHED_TOKEN},
     refresh_token : {"none", REFRESHED_TOKEN}, expires_in : ExpiresIn]
    \cup [kind : {"error", "no_access_token"}, access_token : {"none"},
          refresh_token : {"none"}, expires_in : ExpiresIn]

\* models.Analytics(post_id, user_id) as the INSERT stores it: the Integer columns
\* get their default 0, last_synced is NULL
InsertedAnalytics(p, u) ==
    [post_id |-> p, user_id |-> u, impressions |-> 0, clicks |-> 0, likes |-> 0,
     comments |-> 0, shares |-> 0, engagement_rate |-> 0, last_synced |-> NULL]

\* the row an "Update post status" block stores
PublishedRow(row, at, resp) ==
    [row EXCEPT !.status = PUBLISHED,
                !.published_time = at,
                !.linkedin_post_id = resp.id,
                !.linkedin_share_url = resp.shareUrl]

\* what create_text_post / create_image_post do: return the share, or raise
PublishOutcomes ==
    {[ok |-> TRUE, id |-> r, shareUrl |-> r] : r \in ResponseIds}
    \cup {[ok |-> FALSE, id |-> NULL, shareUrl |-> NULL]}

\* the analytics row a publish creates
InitialAnalytics(p, u, at) == [InsertedAnalytics(p, u) EXCEPT !.last_synced = at]

\* routers/linkedin.publish_to_linkedin, one request.  token_data: what the token
\* exchange does when it is called; resp: what the publish call does when it is called.
\* A refresh that fails, a row that is missing, not the caller's or already Published,
\* and a publish call that raises all end the request with an HTTP error.
publish_to_linkedin(u, p, token_data, resp) ==
    LET user == users[u]
        expired == TokenExpired(user, now)
        refreshed == expired /\ token_data.kind = "ok"
    IN  /\ Served
        /\ user.linkedin_access_token # "none"
        /\ expired => user.linkedin_refresh_token # "none"
        /\ expired => token_data.kind = "ok"
        /\ users' = IF refreshed
                    THEN [users EXCEPT ![u] = RefreshedUser(user, token_data, now)]
                    ELSE users
        /\ IF /\ PostExists(p)
              /\ posts[p].author_id = u
              /\ posts[p].status # PUBLISHED
              /\ resp.ok
           THEN /\ posts' = [posts EXCEPT ![p] = PublishedRow(@, now, resp)]
                /\ analytics' = IF AnalyticsOf(p) = {}
                                THEN Append(analytics, InitialAnalytics(p, u, now))
                                ELSE analytics
                /\ created' = [created EXCEPT ![p] = Min(@ + 1, MaxCreations)]
                /\ published_by_worker' = Overwritten({p})
           ELSE /\ refreshed
                /\ UNCHANGED <<posts, analytics, created, published_by_worker>>
        /\ UNCHANGED <<now, worker_vars>>

\* --------------------------------------------------- API: analytics
\* bodies of PUT /analytics/posts/{post_id}: the fields the client sent
\* (schemas.AnalyticsUpdate; dict(exclude_unset=True) keeps exactly these)
NoFields == [f \in {} |-> 0]
Impressions == {0, 4}
AnalyticsUpdates == {NoFields} \cup {[impressions |-> n] : n \in Impressions}

\* "for key, value in update_data.items(): setattr(db_analytics, key, value)",
\* for the impressions column
SetFields(row, update_data) ==
    [row EXCEPT !.impressions = IF "impressions" \in DOMAIN update_data
                                THEN update_data.impressions ELSE @]

\* a create branch that stores the record
create_or_update_analytics_stored(table, p, u, update_data) ==
    LET found == {i \in DOMAIN table : table[i].post_id = p /\ table[i].user_id = u}
    IN  IF found = {}
        THEN [raised |-> FALSE, table |-> Append(table, InsertedAnalytics(p, u))]
        ELSE [raised |-> FALSE,
              table |-> [i \in DOMAIN table |->
                            IF i \in found THEN SetFields(table[i], update_data)
                            ELSE table[i]]]

\* crud.create_or_update_analytics.  No record of the post and user:
\* models.Analytics(post_id, user_id, **analytics.dict()) gets the key data_points,
\* which is no attribute of the model, and raises TypeError before db.add.
\* A record: the fields the client sent are set on it and committed.
create_or_update_analytics(table, p, u, update_data) ==
    LET found == {i \in DOMAIN table : table[i].post_id = p /\ table[i].user_id = u}
    IN  IF found = {}
        THEN [raised |-> TRUE, table |-> table]
        ELSE [raised |-> FALSE,
              table |-> [i \in DOMAIN table |->
                            IF i \in found THEN SetFields(table[i], update_data)
                            ELSE table[i]]]

\* routers/analytics.read_post_analytics: GET /analytics/posts/{post_id}; a post
\* without a record goes to create_or_update_analytics with schemas.AnalyticsUpdate()
read_post_analytics(u, p) ==
    /\ Served
    /\ PostExists(p)
    /\ posts[p].author_id = u
    /\ analytics' = IF \E i \in DOMAIN analytics :
                          analytics[i].post_id = p /\ analytics[i].user_id = u
                    THEN analytics
                    ELSE create_or_update_analytics(analytics, p, u, NoFields).table
    /\ UNCHANGED <<posts, users, now, worker_vars, created, published_by_worker>>

\* routers/analytics.update_post_analytics: PUT /analytics/posts/{post_id}
update_post_analytics(u, p, update_data) ==
    /\ Served
    /\ PostExists(p)
    /\ posts[p].author_id = u
    /\ analytics' = create_or_update_analytics(analytics, p, u, update_data).table
    /\ UNCHANGED <<posts, users, now, worker_vars, created, published_by_worker>>

\* ---------------------------------------------------------- clock
Tick ==
    /\ now < StartTime + MaxTicks
    /\ now' = now + 1
    /\ UNCHANGED <<db_vars, worker_vars, created, published_by_worker>>
    /\ UNCHANGED <<requests, loop_vars, allocator_vars, sync_vars, limiter_vars>>

\* ------------------------------------ worker: process_scheduled_posts
\* a due query whose look-behind bound is inclusive
DuePosts_inclusive(at) ==
    {p \in DOMAIN posts :
        /\ posts[p].status = SCHEDULED
        /\ posts[p].scheduled_time # NULL
        /\ posts[p].scheduled_time <= at + WINDOW_MINUTES
        /\ posts[p].scheduled_time >= at - WINDOW_MINUTES}

\* the due query: status = SCHEDULED, scheduled_time <= now + 5 min,
\* scheduled_time > now - 5 min (a NULL scheduled_time satisfies no comparison)
DuePosts(at) ==
    {p \in DOMAIN posts :
        /\ posts[p].status = SCHEDULED
        /\ posts[p].scheduled_time # NULL
        /\ posts[p].scheduled_time <= at + WINDOW_MINUTES
        /\ posts[p].scheduled_time > at - WINDOW_MINUTES}

\* history: what one iteration of "for post in scheduled_posts" saw and did
LogEntry(credential, calls, publish_ok, writes) ==
    [credential |-> credential, calls |-> calls, publish_ok |-> publish_ok,
     response |-> NoResponse, writes |-> writes, token |-> "none"]

Logged(w, p, entry) == [item_log EXCEPT ![w] = (p :> entry) @@ @]

\* post.status = FAILED; db.commit()
FailedRow(row) == [row EXCEPT !.status = FAILED]

\* the cycle starts: now is read and the due rows are loaded
query_due(w) ==
    /\ pc[w] = "idle"
    /\ DuePosts(now) # {}
    /\ cycle_now' = [cycle_now EXCEPT ![w] = now]
    /\ scheduled_posts' = [scheduled_posts EXCEPT ![w] = DuePosts(now)]
    /\ todo' = [todo EXCEPT ![w] = DuePosts(now)]
    /\ pc' = [pc EXCEPT ![w] = "loop"]
    /\ UNCHANGED <<db_vars, now, post, response, session_ok, item_log, created,
                   published_by_worker>>
    /\ UNCHANGED <<requests, loop_vars, allocator_vars, sync_vars, limiter_vars>>

\* credential checks that do not look for a missing access token
Credential_unchecked(user, at) ==
    IF ~TokenExpired(user, at) THEN "valid"
    ELSE IF user.linkedin_refresh_token = "none" THEN "expired_no_refresh_token"
    ELSE "expired"

\* the credential checks at the head of an iteration
Credential(user, at) ==
    IF user.linkedin_access_token = "none" THEN "no_access_token"
    ELSE IF ~TokenExpired(user, at) THEN "valid"
    ELSE IF user.linkedin_refresh_token = "none" THEN "expired_no_refresh_token"
    ELSE "expired"

\* the next row of the loop: its user is loaded and the credential is checked
begin_item(w) ==
    /\ pc[w] = "loop"
    /\ \E p \in todo[w] :
         LET credential == Credential(users[posts[p].author_id], cycle_now[w])
             fails == credential \in {"no_access_token", "expired_no_refresh_token"}
         IN  /\ todo' = [todo EXCEPT ![w] = @ \ {p}]
             /\ IF fails
                THEN /\ posts' = [posts EXCEPT ![p] = FailedRow(@)]
                     /\ published_by_worker' = Overwritten({p})
                     /\ item_log' = Logged(w, p, LogEntry(credential, {}, FALSE, <<FAILED>>))
                     /\ UNCHANGED <<pc, post>>
                ELSE /\ pc' = [pc EXCEPT ![w] =
                                 IF credential = "expired" THEN "refresh" ELSE "publish"]
                     /\ post' = [post EXCEPT ![w] = p]
                     /\ item_log' = Logged(w, p,
                           [LogEntry(credential, {}, FALSE, <<>>) EXCEPT
                              !.token = users[posts[p].author_id].linkedin_access_token])
                     /\ UNCHANGED <<posts, published_by_worker>>
    /\ UNCHANGED <<users, analytics, now, cycle_now, scheduled_posts, response,
                   session_ok, created>>
    /\ UNCHANGED <<requests, loop_vars, allocator_vars, sync_vars, limiter_vars>>

\* the iteration of the current row ends: continue with the next one
ItemDone(w) ==
    /\ pc' = [pc EXCEPT ![w] = "loop"]
    /\ post' = [post EXCEPT ![w] = 0]
    /\ response' = [response EXCEPT ![w] = NoResponse]

\* history: the current row's entry with a call or a status write added
Called(w, call) ==
    [item_log EXCEPT ![w][post[w]].calls = @ \cup {call}]

Wrote(w, status) ==
    [item_log EXCEPT ![w][post[w]].writes = Append(@, status)]

\* a token refresh whose failure is not handled: the iteration goes on to the publish call
refresh_token_unhandled(w, token_data) ==
    /\ pc[w] = "refresh"
    /\ pc' = [pc EXCEPT ![w] = "publish"]
    /\ item_log' = Called(w, "refresh")
    /\ users' = IF token_data.kind = "ok"
                THEN [users EXCEPT ![posts[post[w]].author_id] =
                        RefreshedUser(@, token_data, cycle_now[w])]
                ELSE users
    /\ UNCHANGED <<posts, post, response, published_by_worker>>
    /\ UNCHANGED <<analytics, now, cycle_now, scheduled_posts, todo, session_ok, created>>
    /\ UNCHANGED <<requests, loop_vars, allocator_vars, sync_vars, limiter_vars>>

\* the token refresh of an iteration; a token_data without "expires_in" raises after
\* the access and refresh token were assigned, and the commit of the except branch
\* stores them with the Failed status
refresh_token(w, token_data) ==
    /\ pc[w] = "refresh"
    /\ LET p == post[w]
           u == posts[p].author_id
       IN  IF token_data.kind = "ok"
           THEN /\ users' = [users EXCEPT ![u] = RefreshedUser(@, token_data, cycle_now[w])]
                /\ pc' = [pc EXCEPT ![w] = "publish"]
                /\ item_log' = Called(w, "refresh")
                /\ UNCHANGED <<posts, post, response, published_by_worker>>
           ELSE /\ users' = IF token_data.kind = "no_expires_in"
                            THEN [users EXCEPT ![u] =
                                    [RefreshedUser(@, token_data, cycle_now[w]) EXCEPT
                                       !.linkedin_token_expires_at =
                                           users[u].linkedin_token_expires_at]]
                            ELSE users
                /\ posts' = [posts EXCEPT ![p] = FailedRow(@)]
                /\ published_by_worker' = Overwritten({p})
                /\ item_log' = [item_log EXCEPT
                                  ![w][p].calls = @ \cup {"refresh"},
                                  ![w][p].writes = Append(@, FAILED)]
                /\ ItemDone(w)
    /\ UNCHANGED <<analytics, now, cycle_now, scheduled_posts, todo, session_ok, created>>
    /\ UNCHANGED <<requests, loop_vars, allocator_vars, sync_vars, limiter_vars>>

\* LinkedInAPI(user.linkedin_access_token) and create_image_post / create_text_post.
\* The commit of a refresh expired the attributes of user (expire_on_commit): the read
\* loads the stored row again.  Without a refresh the attribute loaded at the head of
\* the iteration is used.
publish_call(w, resp) ==
    /\ pc[w] = "publish"
    /\ item_log' = [item_log EXCEPT ![w][post[w]].calls = @ \cup {"publish"},
                                    ![w][post[w]].publish_ok = resp.ok,
                                    ![w][post[w]].response = resp,
                                    ![w][post[w]].token =
                                       IF "refresh" \in item_log[w][post[w]].calls
                                       THEN users[posts[post[w]].author_id]
                                                .linkedin_access_token
                                       ELSE @]
    /\ IF resp.ok
       THEN /\ response' = [response EXCEPT ![w] = resp]
            /\ created' = [created EXCEPT ![post[w]] = Min(@ + 1, MaxCreations)]
            /\ pc' = [pc EXCEPT ![w] = "commit"]
       ELSE /\ pc' = [pc EXCEPT ![w] = "except"]
            /\ UNCHANGED <<response, created>>
    /\ UNCHANGED <<db_vars, now, cycle_now, scheduled_posts, todo, post, session_ok,
                   published_by_worker>>
    /\ UNCHANGED <<requests, loop_vars, allocator_vars, sync_vars, limiter_vars>>

\* "Update post status" and its commit; a commit that raises leaves the session
\* without a usable transaction
commit_published(w, committed) ==
    /\ pc[w] = "commit"
    /\ IF committed
       THEN /\ posts' = [posts EXCEPT ![post[w]] =
                           PublishedRow(@, cycle_now[w], response[w])]
            /\ published_by_worker' = published_by_worker \cup {post[w]}
            /\ item_log' = Wrote(w, PUBLISHED)
            /\ pc' = [pc EXCEPT ![w] = "analytics"]
            /\ UNCHANGED session_ok
       ELSE /\ session_ok' = [session_ok EXCEPT ![w] = FALSE]
            /\ pc' = [pc EXCEPT ![w] = "except"]
            /\ UNCHANGED <<posts, published_by_worker, item_log>>
    /\ UNCHANGED <<users, analytics, now, cycle_now, scheduled_posts, todo, post,
                   response, created>>
    /\ UNCHANGED <<requests, loop_vars, allocator_vars, sync_vars, limiter_vars>>

\* what a statement sent to the database does: it runs; it raises and the session
\* stays usable ("error": the commit before it released the connection and none could
\* be obtained for the new transaction); or it fails inside the transaction and the
\* session needs a rollback first ("disconnected")
QueryOutcomes == {"ok", "error", "disconnected"}

\* the lookup of the row's analytics record
query_analytics(w, outcome) ==
    /\ pc[w] = "analytics"
    /\ IF outcome # "ok"
       THEN /\ pc' = [pc EXCEPT ![w] = "except"]
            /\ session_ok' = [session_ok EXCEPT ![w] = (outcome = "error")]
            /\ UNCHANGED <<post, response>>
       ELSE /\ IF AnalyticsOf(post[w]) = {}
               THEN /\ pc' = [pc EXCEPT ![w] = "add_analytics"]
                    /\ UNCHANGED <<post, response>>
               ELSE ItemDone(w)
            /\ UNCHANGED session_ok
    /\ UNCHANGED <<db_vars, now, cycle_now, scheduled_posts, todo, item_log, created,
                   published_by_worker>>
    /\ UNCHANGED <<requests, loop_vars, allocator_vars, sync_vars, limiter_vars>>

\* db.add(analytics); db.commit().  analytics.post_id is unique: when a record of the
\* row was committed since the lookup the flush raises IntegrityError
insert_analytics(w, committed) ==
    /\ pc[w] = "add_analytics"
    /\ IF committed /\ AnalyticsOf(post[w]) = {}
       THEN /\ analytics' = Append(analytics,
                   InitialAnalytics(post[w], posts[post[w]].author_id, cycle_now[w]))
            /\ ItemDone(w)
            /\ UNCHANGED session_ok
       ELSE /\ session_ok' = [session_ok EXCEPT ![w] = FALSE]
            /\ pc' = [pc EXCEPT ![w] = "except"]
            /\ UNCHANGED <<analytics, post, response>>
    /\ UNCHANGED <<posts, users, now, cycle_now, scheduled_posts, todo, item_log,
                   created, published_by_worker>>
    /\ UNCHANGED <<requests, loop_vars, allocator_vars, sync_vars, limiter_vars>>

\* the locals of a loop that runs no cycle
Returned(w) ==
    /\ pc' = [pc EXCEPT ![w] = "idle"]
    /\ cycle_now' = [cycle_now EXCEPT ![w] = NULL]
    /\ scheduled_posts' = [scheduled_posts EXCEPT ![w] = {}]
    /\ todo' = [todo EXCEPT ![w] = {}]
    /\ post' = [post EXCEPT ![w] = 0]
    /\ response' = [response EXCEPT ![w] = NoResponse]
    /\ session_ok' = [session_ok EXCEPT ![w] = TRUE]
    /\ item_log' = [item_log EXCEPT ![w] = <<>>]

\* an except branch that gives up the cycle after it stored Failed
handle_exception_return(w) ==
    /\ pc[w] = "except"
    /\ IF session_ok[w]
       THEN /\ posts' = [posts EXCEPT ![post[w]] = FailedRow(@)]
            /\ published_by_worker' = Overwritten({post[w]})
       ELSE UNCHANGED <<posts, published_by_worker>>
    /\ Returned(w)
    /\ UNCHANGED <<users, analytics, now, created, requests, loop_vars, allocator_vars,
                   sync_vars, limiter_vars>>

\* except Exception of the iteration: post.status = FAILED; db.commit().  After a
\* failed flush the session was not rolled back: this commit raises too, the outer
\* except logs it and the cycle returns with the rest of the rows not iterated
handle_exception(w) ==
    /\ pc[w] = "except"
    /\ IF session_ok[w]
       THEN /\ posts' = [posts EXCEPT ![post[w]] = FailedRow(@)]
            /\ published_by_worker' = Overwritten({post[w]})
            /\ item_log' = Wrote(w, FAILED)
            /\ ItemDone(w)
            /\ UNCHANGED <<cycle_now, scheduled_posts, todo, session_ok>>
       ELSE /\ Returned(w)
            /\ UNCHANGED <<posts, published_by_worker>>
    /\ UNCHANGED <<users, analytics, now, created>>
    /\ UNCHANGED <<requests, loop_vars, allocator_vars, sync_vars, limiter_vars>>

\* every row was iterated: process_scheduled_posts returns
end_cycle(w) ==
    /\ pc[w] = "loop"
    /\ todo[w] = {}
    /\ Returned(w)
    /\ UNCHANGED <<db_vars, now, created, published_by_worker>>
    /\ UNCHANGED <<requests, loop_vars, allocator_vars, sync_vars, limiter_vars>>

\* ------------------------------------------------------ specification
UpdateStatuses == PostStatus \cup {"unset"}
UpdateTimes == SchedTimes \cup {NULL, UNSET}
PostIdLists == UNION {[1..n -> PostIds] : n \in 1..MaxPosts}

ApiStep ==
    \/ \E u \in Users, t \in SchedTimes \cup {NULL} : create_post(u, t)
    \/ \E u \in Users, p \in PostIds, st \in UpdateStatuses, t \in UpdateTimes :
         update_post(u, p, st, t)
    \/ \E u \in Users, ids \in PostIdLists, ty \in ScheduleTypes, cfg \in ScheduleConfigs :
         bulk_schedule_posts(u, ids, ty, cfg)
    \/ \E u \in Users, p \in PostIds, r \in ResponseIds : publish_post(u, p, r, r)
    \/ \E u \in Users, p \in PostIds, td \in TokenOutcomes, resp \in PublishOutcomes :
         publish_to_linkedin(u, p, td, resp)
    \/ \E u \in Users, rt \in {"none", CALLBACK_TOKEN}, e \in ExpiresIn :
         linkedin_callback(u, rt, e)
    \/ \E u \in Users : disconnect_linkedin(u)
    \/ \E u \in Users, p \in PostIds : read_post_analytics(u, p)
    \/ \E u \in Users, p \in PostIds, update_data \in AnalyticsUpdates :
          update_post_analytics(u, p, update_data)

WorkerStep(w) ==
    \/ query_due(w)
    \/ begin_item(w)
    \/ \E td \in TokenOutcomes : refresh_token(w, td)
    \/ \E resp \in PublishOutcomes : publish_call(w, resp)
    \/ \E committed \in BOOLEAN : commit_published(w, committed)
    \/ \E outcome \in QueryOutcomes : query_analytics(w, outcome)
    \/ \E committed \in BOOLEAN : insert_analytics(w, committed)
    \/ handle_exception(w)
    \/ end_cycle(w)

Next ==
    \/ ApiStep
    \/ \E w \in Workers : WorkerStep(w)
    \/ Tick

Spec == Init /\ [][Next]_vars

\* ---- the publish worker on its own
\* Posts are created (Draft or Scheduled) and accounts are connected through the API;
\* after that only the worker loops and the clock act.  worker_loop starts a cycle
\* every 60 seconds for as long as the process runs and every database or HTTP call
\* of an iteration returns or raises, so each loop that can take a step takes one;
\* time passes.
DueStep ==
    \/ \E u \in Users, t \in SchedTimes \cup {NULL} : create_post(u, t)
    \/ \E u \in Users, rt \in {"none", CALLBACK_TOKEN}, e \in ExpiresIn :
         linkedin_callback(u, rt, e)

NextDue ==
    \/ DueStep
    \/ \E w \in Workers : WorkerStep(w)
    \/ Tick

FairDue ==
    /\ \A w \in Workers : WF_vars(WorkerStep(w))
    /\ WF_vars(Tick)

SpecDue == Init /\ [][NextDue]_vars /\ FairDue

\* ------------------------------------- bulk scheduling: the allocator
\* a validation that accepts a request as soon as one of its ids matches a row
BulkSchedule_partial(req) ==
    IF req.rows = <<>>
    THEN [status |-> "invalid", schedule |-> <<>>, updated |-> {}]
    ELSE IF ScheduleRaises(Len(req.rows), req.schedule_type, req.cfg)
    THEN [status |-> "raised", schedule |-> <<>>, updated |-> {}]
    ELSE LET schedule_times ==
                 ScheduleTimes(req.rows, req.schedule_type, req.cfg, req.now)
         IN  [status |-> "ok", schedule |-> schedule_times,
              updated |-> Assigned(schedule_times)]

\* crud.bulk_schedule_posts as a function of its arguments, of the rows its query
\* returns (in the order the database returns them) and of utcnow(); the router turns
\* None into HTTP 400, a list into the response body, an exception into HTTP 500.
BulkSchedule(req) ==
    IF req.rows = <<>> \/ Len(req.rows) # Len(req.post_ids)
    THEN [status |-> "invalid", schedule |-> <<>>, updated |-> {}]
    ELSE IF ScheduleRaises(Len(req.rows), req.schedule_type, req.cfg)
    THEN [status |-> "raised", schedule |-> <<>>, updated |-> {}]
    ELSE LET schedule_times ==
                 ScheduleTimes(req.rows, req.schedule_type, req.cfg, req.now)
         IN  [status |-> "ok", schedule |-> schedule_times,
              updated |-> Assigned(schedule_times)]

\* requests: ids of stored rows (PostIds) and one id that matches no row; the list
\* may be empty
RequestIds == PostIds \cup {MaxPosts + 1}
IdLists == UNION {[1..n -> RequestIds] : n \in 0..MaxPosts}
\* current_user.id of the request
Caller == 1
\* filter(Post.id.in_(post_ids), Post.author_id == user_id)
QueryRows(table, post_ids, user_id) ==
    {p \in Range(post_ids) \cap DOMAIN table : table[p].author_id = user_id}
\* "09:00", "9:00" and "17:30"
SlotTexts == {<< <<0, 9>>, <<0, 0>> >>, << <<9>>, <<0, 0>> >>, << <<1, 7>>, <<3, 0>> >>}
SlotLists == UNION {[1..n -> SlotTexts] : n \in 0..MaxSlots}
DayLists ==
    {<<>>, <<"Tuesday">>, <<"Wednesday">>, <<"Tuesday", "Wednesday">>, <<"Funday">>,
     <<"Tuesday", "Funday">>}
\* utcnow() of the call: a Tuesday (day 1) at 09:00, 12:30 and 20:00
AllocationTimes ==
    {MINUTES_PER_DAY + 9 * MINUTES_PER_HOUR,
     MINUTES_PER_DAY + 12 * MINUTES_PER_HOUR + 30,
     MINUTES_PER_DAY + 20 * MINUTES_PER_HOUR}
AllocatorTypes == {"evenly_spaced", "specific_days", "optimal_times", "random"}

AllocatorConfigs(schedule_type) ==
    CASE schedule_type = "evenly_spaced" ->
           {[NoConfig EXCEPT !.start_date = s, !.end_date = e, !.time_slots = t] :
               s \in {1, 2}, e \in {0, 1, 2}, t \in SlotLists}
      [] schedule_type = "specific_days" ->
           {[NoConfig EXCEPT !.days = d, !.time_slots = t, !.weeks_ahead = w] :
               d \in DayLists, t \in SlotLists, w \in 0..MaxWeeks}
      [] schedule_type = "optimal_times" ->
           {[NoConfig EXCEPT !.days_ahead = n] : n \in 0..MaxDaysAhead}
      [] OTHER -> {NoConfig}

AllocatorRequests(table) ==
    UNION {UNION {
        {[post_ids |-> ids, rows |-> rows, schedule_type |-> t, cfg |-> c, now |-> at] :
            rows \in Orderings(QueryRows(table, ids, Caller)),
            c \in AllocatorConfigs(t),
            at \in AllocationTimes} :
        t \in AllocatorTypes} : ids \in IdLists}

\* POST /bulk/schedule is served
allocate ==
    /\ request # NoRequest
    /\ result = NoResult
    /\ result' = BulkSchedule(request)
    /\ posts' = UpdatedPosts(posts, BulkSchedule(request).schedule)
    /\ UNCHANGED <<request, users, analytics, now, worker_vars, created, requests,
                   published_by_worker, loop_vars, sync_vars, limiter_vars>>

\* rows before the call: a Draft, a Scheduled and a Failed one of the caller, and a
\* Draft of another account
StoredRows ==
    {NewPost(Caller, NULL), NewPost(Caller, StartTime),
     FailedRow(NewPost(Caller, StartTime)), NewPost(Caller + 1, NULL)}

InitAllocator ==
    /\ posts \in [PostIds -> StoredRows]
    /\ InitRest
    /\ InitLoop
    /\ InitLimiterIdle
    /\ InitSyncIdle
    /\ request \in AllocatorRequests(posts)
    /\ result = NoResult

\* a batch of MaxBatch Drafts of the caller, named in any order by the request and
\* returned in any order by the query, spread over one or two days
BatchIds == 1..MaxBatch

BatchRequests ==
    {[post_ids |-> ids, rows |-> rows, schedule_type |-> "evenly_spaced",
      cfg |-> [NoConfig EXCEPT !.start_date = 1, !.end_date = e, !.time_slots = t],
      now |-> at] :
        ids \in Orderings(BatchIds), rows \in Orderings(BatchIds),
        e \in {1, 2}, t \in SlotLists, at \in AllocationTimes}

InitAllocatorBatch ==
    /\ posts = [p \in BatchIds |-> NewPost(Caller, NULL)]
    /\ InitRest
    /\ InitLoop
    /\ InitLimiterIdle
    /\ InitSyncIdle
    /\ request \in BatchRequests
    /\ result = NoResult

SpecAllocator == (InitAllocator \/ InitAllocatorBatch) /\ [][allocate]_vars

\* ------------------------------------------------ worker: worker_loop
\* The loop task as a whole: one cycle is the publish phase (process_scheduled_posts,
\* whose items are reduced to "publish call made" / "status committed"), the sync phase
\* (sync_post_analytics) and the sleep. The task is suspended at its two sleeps only.
Others == <<service_vars, allocator_vars, sync_vars, limiter_vars>>

\* asyncio.run(worker_loop()) / asyncio.create_task(worker_loop()): the task starts
start_worker ==
    /\ loop_pc = "created"
    /\ loop_pc' = "check"
    /\ UNCHANGED <<running, shutdown, items_left, in_flight, cycles, raised, signalled, Others>>

\* "while running:"; a cycle starts with the due query, which returns n rows
check_running(n) ==
    /\ loop_pc = "check"
    /\ IF running
       THEN /\ loop_pc' = "publish"
            /\ items_left' = n
            /\ cycles' = Min(cycles + 1, MaxCycles)
       ELSE /\ loop_pc' = "exited"
            /\ UNCHANGED <<items_left, cycles>>
    /\ UNCHANGED <<running, shutdown, in_flight, raised, signalled, Others>>

\* create_image_post / create_text_post returned for the next row
item_call ==
    /\ loop_pc = "publish"
    /\ in_flight = "none"
    /\ items_left > 0
    /\ in_flight' = "called"
    /\ UNCHANGED <<running, loop_pc, shutdown, items_left, cycles, raised, signalled, Others>>

\* the status of the row is committed and the loop goes to the next row
item_commit ==
    /\ loop_pc = "publish"
    /\ in_flight = "called"
    /\ in_flight' = "none"
    /\ items_left' = items_left - 1
    /\ UNCHANGED <<running, loop_pc, shutdown, cycles, raised, signalled, Others>>

\* the commit of the row raises: the except branches of process_scheduled_posts catch
\* it and the phase returns without the rows that are left
item_abort ==
    /\ loop_pc = "publish"
    /\ in_flight = "called"
    /\ in_flight' = "none"
    /\ items_left' = 0
    /\ UNCHANGED <<running, loop_pc, shutdown, cycles, raised, signalled, Others>>

\* process_scheduled_posts returned
publish_returns ==
    /\ loop_pc = "publish"
    /\ in_flight = "none"
    /\ items_left = 0
    /\ loop_pc' = "sync"
    /\ UNCHANGED <<running, shutdown, items_left, in_flight, cycles, raised, signalled, Others>>

\* sync_post_analytics returned; the loop sleeps 60 s
sync_returns ==
    /\ loop_pc = "sync"
    /\ loop_pc' = "sleep"
    /\ UNCHANGED <<running, shutdown, items_left, in_flight, cycles, raised, signalled, Others>>

\* an exception that leaves the loop task (no "except Exception" around the cycle)
phase_raises_uncaught ==
    /\ loop_pc \in {"publish", "sync"}
    /\ in_flight = "none"
    /\ loop_pc' = "exited"
    /\ items_left' = 0
    /\ raised' = cycles
    /\ UNCHANGED <<running, shutdown, in_flight, cycles, signalled, Others>>

\* a phase raises to the loop (SessionLocal() before the try block, db.close() in the
\* finally block): "except Exception" logs it and the loop sleeps 10 s
phase_raises ==
    /\ loop_pc \in {"publish", "sync"}
    /\ in_flight = "none"
    /\ loop_pc' = "backoff"
    /\ items_left' = 0
    /\ raised' = cycles
    /\ UNCHANGED <<running, shutdown, in_flight, cycles, signalled, Others>>

\* asyncio.sleep(60) or asyncio.sleep(10) is over
wake ==
    /\ loop_pc \in {"sleep", "backoff"}
    /\ loop_pc' = "check"
    /\ UNCHANGED <<running, shutdown, items_left, in_flight, cycles, raised, signalled, Others>>

\* handle_signal: SIGINT or SIGTERM clears the flag, wherever the loop is
handle_signal ==
    /\ running
    /\ loop_pc # "exited"
    /\ running' = FALSE
    /\ signalled' = IF signalled = "no" THEN in_flight ELSE signalled
    /\ UNCHANGED <<loop_pc, shutdown, items_left, in_flight, cycles, raised, Others>>

\* a cancellation that interrupts the task wherever it is
cancel_anywhere ==
    /\ ~shutdown
    /\ loop_pc # "exited"
    /\ shutdown' = TRUE
    /\ loop_pc' = "exited"
    /\ signalled' = IF signalled = "no" THEN in_flight ELSE signalled
    /\ UNCHANGED <<running, items_left, in_flight, cycles, raised, Others>>

\* main.lifespan at application shutdown: worker_task.cancel(); await worker_task.
\* The lifespan runs on the event loop of the task, so the task is suspended at a sleep
\* (or not started); CancelledError is raised there and "except Exception" lets it pass
cancel ==
    /\ ~shutdown
    /\ loop_pc \in {"created", "sleep", "backoff"}
    /\ shutdown' = TRUE
    /\ loop_pc' = "exited"
    /\ signalled' = IF signalled = "no" THEN in_flight ELSE signalled
    /\ UNCHANGED <<running, items_left, in_flight, cycles, raised, Others>>

\* the steps the loop task takes by itself
LoopRun ==
    \/ start_worker
    \/ \E n \in 0..MaxItems : check_running(n)
    \/ item_call
    \/ item_commit
    \/ item_abort
    \/ publish_returns
    \/ sync_returns
    \/ phase_raises
    \/ wake

NextLoop ==
    \/ LoopRun
    \/ handle_signal
    \/ cancel

\* the event loop runs the task, a sleep ends, a call returns or raises
SpecLoop == Init /\ [][NextLoop]_vars /\ WF_vars(LoopRun)

\* ------------------------------------- worker: sync_post_analytics
\* ".limit(20)" of the query for posts to sync
SYNC_LIMIT == 20

SyncUsers == {1, 2}
\* now of the cycles: late enough for every time before one_week_ago to be >= 0
SyncStart == (DAYS_PER_WEEK + 1) * MINUTES_PER_DAY

\* the filter of the query: Published, with a LinkedIn id, and published within
\* the last day, or published within the last week with a record whose last_synced
\* is a day old (records: the rows of analytics of the post; a comparison with
\* a NULL column is not true)
NeedsSync_no_week_bound(row, records, at) ==
    LET one_day_ago == at - MINUTES_PER_DAY
    IN  /\ row.status = PUBLISHED
        /\ row.linkedin_post_id # NULL
        /\ \/ row.published_time # NULL /\ row.published_time >= one_day_ago
           \/ \E r \in records : r.last_synced # NULL /\ r.last_synced <= one_day_ago

NeedsSync(row, records, at) ==
    LET one_day_ago == at - MINUTES_PER_DAY
        one_week_ago == at - DAYS_PER_WEEK * MINUTES_PER_DAY
    IN  /\ row.status = PUBLISHED
        /\ row.linkedin_post_id # NULL
        /\ \/ row.published_time # NULL /\ row.published_time >= one_day_ago
           \/ /\ \E r \in records : r.last_synced # NULL /\ r.last_synced <= one_day_ago
              /\ row.published_time # NULL /\ row.published_time >= one_week_ago

RecordsOf(p) == {analytics[i] : i \in AnalyticsOf(p)}

SyncCandidates(at) == {p \in DOMAIN posts : NeedsSync(posts[p], RecordsOf(p), at)}

\* the subsets of S that have k elements
RECURSIVE Subsets(_, _)
Subsets(S, k) ==
    IF k = 0 THEN {{}}
    ELSE UNION {{T \cup {x} : T \in Subsets({y \in S : y > x}, k - 1)} : x \in S}

\* a query without a limit
Limit_none(S, n) == {S}

\* LIMIT n without ORDER BY: any n of the rows that match
Limit(S, n) ==
    IF Cardinality(S) <= n THEN {S}
    ELSE {S \ D : D \in Subsets(S, Cardinality(S) - n)}

RECURSIVE Ascending(_)
Ascending(S) ==
    IF S = {} THEN <<>>
    ELSE LET m == CHOOSE x \in S : \A y \in S : x <= y
         IN  <<m>> \o Ascending(S \ {m})

Reverse(s) == [i \in 1..Len(s) |-> s[Len(s) + 1 - i]]

\* the order of the rows ".all()" returns: the two scan directions of the primary key
ResultOrders(S) == {Ascending(S), Reverse(Ascending(S))}

\* one group for every row
Keys_per_row(rows, seen) == [i \in 1..Len(rows) |-> posts[rows[i]].author_id]

\* the keys of posts_by_user in insertion order: the authors of the rows in the
\* order of their first row
RECURSIVE Keys(_, _)
Keys(rows, seen) ==
    IF rows = <<>> THEN <<>>
    ELSE LET u == posts[Head(rows)].author_id
         IN  IF u \in seen THEN Keys(Tail(rows), seen)
             ELSE <<u>> \o Keys(Tail(rows), seen \cup {u})

\* posts_by_user[u]
posts_by_user(rows, u) == SelectSeq(rows, LAMBDA p : posts[p].author_id = u)

\* what linkedin_client.get_post_analytics does: it returns likes, comments and
\* shares, or raises (raise_for_status)
NoData == [ok |-> FALSE, likes |-> 0, comments |-> 0, shares |-> 0]
SomeData == [ok |-> TRUE, likes |-> 2, comments |-> 1, shares |-> 0]
AnalyticsResponses == {NoData, SomeData, [SomeData EXCEPT !.likes = 0, !.comments = 0]}

\* a new models.Analytics(post_id, user_id): the other attributes are None until
\* the INSERT applies the column defaults
NewAnalytics(p, u) ==
    [post_id |-> p, user_id |-> u, impressions |-> NULL, clicks |-> NULL, likes |-> NULL,
     comments |-> NULL, shares |-> NULL, engagement_rate |-> NULL, last_synced |-> NULL]

\* the row the INSERT of an object stores
Flushed(row) ==
    [row EXCEPT !.impressions = IF @ = NULL THEN 0 ELSE @,
                !.clicks = IF @ = NULL THEN 0 ELSE @,
                !.likes = IF @ = NULL THEN 0 ELSE @,
                !.comments = IF @ = NULL THEN 0 ELSE @,
                !.shares = IF @ = NULL THEN 0 ELSE @,
                !.engagement_rate = IF @ = NULL THEN 0 ELSE @]

\* an update that starts from a record without impressions and clicks
WithData_reset(row, analytics_data) ==
    [row EXCEPT !.likes = analytics_data.likes,
                !.comments = analytics_data.comments,
                !.shares = analytics_data.shares,
                !.impressions = IF @ = NULL THEN @ ELSE 0,
                !.clicks = IF @ = NULL THEN @ ELSE 0]

\* "Update analytics data": the three assignments from analytics_data
WithData(row, analytics_data) ==
    [row EXCEPT !.likes = analytics_data.likes,
                !.comments = analytics_data.comments,
                !.shares = analytics_data.shares]

\* "Calculate engagement rate" and the last_synced stamp, on a row whose impressions
\* is a number: int((total_engagement / impressions) * 10000) when impressions > 0
\* (the quotients of the enumerated values are exact in binary floating point)
WithRate(row, at) ==
    [row EXCEPT !.engagement_rate =
                    IF row.impressions > 0
                    THEN ((row.likes + row.comments + row.shares) * 10000)
                             \div row.impressions
                    ELSE @,
                !.last_synced = at]

\* history: nothing was done for a row
NoSync == [fetch |-> "none", data |-> NoData, outcome |-> "none"]

\* session.commit(): the pending and flushed objects of the session are stored
CommittedUsers(table, held) ==
    [u \in DOMAIN table |-> IF u \in DOMAIN held.users THEN held.users[u] ELSE table[u]]

\* the cycle starts: a new session, now is read, the query runs and its rows are
\* grouped; with no row the cycle returns at once
sync_query ==
    /\ sync_pc = "idle"
    /\ sync_cycles < MaxSyncCycles
    /\ \E selected \in Limit(SyncCandidates(now), SYNC_LIMIT) :
         \E rows \in ResultOrders(selected) :
            /\ posts_to_sync' = rows
            /\ sync_pc' = IF rows = <<>> THEN "idle" ELSE "users"
            /\ user_at' = IF rows = <<>> THEN 0 ELSE 1
    /\ sync_now' = now
    /\ post_at' = 0
    /\ sync_session' = "ok"
    /\ uncommitted' = NoUncommitted
    /\ sync_log' = [p \in DOMAIN posts |-> NoSync]
    /\ sync_refreshes' = [u \in DOMAIN users |-> 0]
    /\ sync_cycles' = sync_cycles + 1
    /\ UNCHANGED <<service_vars, loop_vars, allocator_vars, limiter_vars>>

\* the head of an iteration of "for user_id, posts in posts_by_user.items()": the
\* user is loaded, the credential is checked and an expired token is refreshed.
\* token_data: what the token exchange does when it is called. A session that a
\* failed flush left inactive raises on the user query; the handler of the group
\* logs it and the loop goes on to the next group. After the last group the
\* session is closed, which drops what it did not commit.
sync_group(token_data) ==
    /\ sync_pc = "users"
    /\ LET keys == Keys(posts_to_sync, {})
           u == keys[user_at]
           credential == IF sync_session = "ok" THEN Credential(users[u], sync_now)
                         ELSE "session_failed"
           refreshes == credential = "expired"
           refreshed == refreshes /\ token_data.kind = "ok"
           half_assigned == refreshes /\ token_data.kind = "no_expires_in"
           enters == credential = "valid" \/ refreshed
           last == user_at = Len(keys)
       IN  /\ sync_refreshes' = IF refreshes
                                THEN [sync_refreshes EXCEPT ![u] = @ + 1]
                                ELSE sync_refreshes
           /\ users' = IF refreshed
                       THEN [CommittedUsers(users, uncommitted) EXCEPT
                               ![u] = RefreshedUser(users[u], token_data, sync_now)]
                       ELSE users
           /\ analytics' = IF refreshed THEN analytics \o uncommitted.analytics
                           ELSE analytics
           /\ uncommitted' =
                 IF refreshed \/ (~enters /\ last) THEN NoUncommitted
                 ELSE IF half_assigned
                 THEN [uncommitted EXCEPT !.users =
                         [v \in DOMAIN @ \cup {u} |->
                            IF v = u
                            THEN [RefreshedUser(users[u], token_data, sync_now) EXCEPT
                                    !.linkedin_token_expires_at =
                                        users[u].linkedin_token_expires_at]
                            ELSE @[v]]]
                 ELSE uncommitted
           /\ sync_log' = IF enters THEN sync_log
                          ELSE [p \in DOMAIN sync_log |->
                                  IF p \in Range(posts_by_user(posts_to_sync, u))
                                  THEN [sync_log[p] EXCEPT !.outcome = credential]
                                  ELSE sync_log[p]]
           /\ sync_pc' = IF enters THEN "posts" ELSE IF last THEN "idle" ELSE "users"
           /\ user_at' = IF enters THEN user_at ELSE IF last THEN 0 ELSE user_at + 1
           /\ post_at' = IF enters THEN 1 ELSE 0
    /\ UNCHANGED <<posts, now, worker_vars, created, requests, published_by_worker>>
    /\ UNCHANGED <<sync_now, posts_to_sync, sync_session, sync_cycles>>
    /\ UNCHANGED <<loop_vars, allocator_vars, limiter_vars>>

\* one iteration of "for post in posts": the fetch (resp: what the call does), the
\* lookup of the record, a new object when there is none, the assignments and the
\* commit (commit_ok: whether its flush succeeds).  A fetch that raises, a lookup
\* on an inactive session, "None > 0" on a new object (TypeError) and a failed
\* commit end in the handler of the iteration, which logs and issues no rollback:
\* a new object stays in the session, a failed flush leaves the session inactive.
\* Faults are explored on the tables of MaxPosts rows; on a table with more rows
\* than the limit every row is fetched and stored without a fault.
sync_item(resp, commit_ok) ==
    /\ sync_pc = "posts"
    /\ LET keys == Keys(posts_to_sync, {})
           u == keys[user_at]
           group == posts_by_user(posts_to_sync, u)
           p == group[post_at]
           found == AnalyticsOf(p)
           object == IF found = {} THEN NewAnalytics(p, u)
                     ELSE analytics[CHOOSE i \in found : TRUE]
           assigned == WithData(object, resp)
           reaches_commit == resp.ok /\ sync_session = "ok" /\ assigned.impressions # NULL
           stored == reaches_commit /\ commit_ok
           last_of_group == post_at = Len(group)
           last == last_of_group /\ user_at = Len(keys)
           held == IF resp.ok /\ sync_session = "ok" /\ assigned.impressions = NULL
                   THEN [uncommitted EXCEPT !.analytics = Append(@, Flushed(assigned))]
                   ELSE uncommitted
       IN  /\ DOMAIN posts = PostIds \/ (resp = SomeData /\ commit_ok)
           /\ analytics' =
                 IF stored
                 THEN [i \in DOMAIN analytics |->
                         IF i \in found THEN WithRate(assigned, sync_now)
                         ELSE analytics[i]] \o uncommitted.analytics
                 ELSE analytics
           /\ users' = IF stored THEN CommittedUsers(users, uncommitted) ELSE users
           /\ sync_session' = IF reaches_commit /\ ~commit_ok THEN "failed"
                              ELSE sync_session
           /\ uncommitted' = IF reaches_commit \/ last THEN NoUncommitted ELSE held
           /\ sync_log' = [sync_log EXCEPT ![p] =
                 [fetch |-> IF resp.ok THEN "ok" ELSE "error",
                  data |-> resp,
                  outcome |-> IF ~resp.ok THEN "fetch_failed"
                              ELSE IF stored THEN "synced" ELSE "update_failed"]]
           /\ sync_pc' = IF ~last_of_group THEN "posts"
                         ELSE IF last THEN "idle" ELSE "users"
           /\ user_at' = IF ~last_of_group THEN user_at
                         ELSE IF last THEN 0 ELSE user_at + 1
           /\ post_at' = IF last_of_group THEN 0 ELSE post_at + 1
    /\ UNCHANGED <<posts, now, worker_vars, created, requests, published_by_worker>>
    /\ UNCHANGED <<sync_now, posts_to_sync, sync_refreshes, sync_cycles>>
    /\ UNCHANGED <<loop_vars, allocator_vars, limiter_vars>>

\* ---- the tables a cycle starts from
\* a stored post and its record: the age of published_time, whether there is a
\* record, the age of its last_synced and its impressions
SyncVariant(status, linkedin_post_id, age, record, synced_age, impressions) ==
    [status |-> status, linkedin_post_id |-> linkedin_post_id, age |-> age,
     record |-> record, synced_age |-> synced_age, impressions |-> impressions]

\* on and next to the bounds one_day_ago and one_week_ago; a row whose status was
\* set to Published through PUT /posts (no published_time, no LinkedIn id) and a
\* row that left Published
SyncVariants ==
    LET day == MINUTES_PER_DAY
        week == DAYS_PER_WEEK * MINUTES_PER_DAY
    IN  {SyncVariant(PUBLISHED, 1, 0, "none", 0, 0),
         SyncVariant(PUBLISHED, 1, 0, "unsynced", 0, 0),
         SyncVariant(PUBLISHED, 1, 0, "synced", 0, 0),
         SyncVariant(PUBLISHED, 1, 0, "synced", 0, 4),
         SyncVariant(PUBLISHED, 1, day, "none", 0, 0),
         SyncVariant(PUBLISHED, 1, day + 1, "none", 0, 0),
         SyncVariant(PUBLISHED, 1, day + 1, "unsynced", 0, 0),
         SyncVariant(PUBLISHED, 1, day + 1, "synced", day, 0),
         SyncVariant(PUBLISHED, 1, day + 1, "synced", day - 1, 0),
         SyncVariant(PUBLISHED, 1, week, "synced", day, 0),
         SyncVariant(PUBLISHED, 1, week + 1, "synced", day, 0),
         SyncVariant(PUBLISHED, NULL, NULL, "none", 0, 0),
         SyncVariant(FAILED, 1, 0, "synced", day, 0)}

StoredPost(v, u, at) ==
    [author_id |-> u, status |-> v.status, scheduled_time |-> NULL,
     published_time |-> IF v.age = NULL THEN NULL ELSE at - v.age,
     linkedin_post_id |-> v.linkedin_post_id,
     linkedin_share_url |-> v.linkedin_post_id]

\* the record of a stored post: as an abandoned sync left it ("unsynced"), or as
\* the publish or an earlier sync stored it, with the rate of its impressions
NoRecord == InsertedAnalytics(0, 0)
StoredRecord(v, p, u, at) ==
    IF v.record = "none" THEN NoRecord
    ELSE IF v.record = "unsynced" THEN InsertedAnalytics(p, u)
    ELSE IF v.impressions = 0 THEN InitialAnalytics(p, u, at - v.synced_age)
    ELSE WithRate([WithData(InsertedAnalytics(p, u), SomeData) EXCEPT
                      !.impressions = v.impressions, !.clicks = v.impressions],
                  at - v.synced_age)

\* users: a token that is valid, expired with and without a refresh token, none
ValidUser ==
    [linkedin_access_token |-> CALLBACK_TOKEN, linkedin_refresh_token |-> CALLBACK_TOKEN,
     linkedin_token_expires_at |-> SyncStart + 1]
ExpiredUser == [ValidUser EXCEPT !.linkedin_token_expires_at = SyncStart]
SyncUserTables ==
    {[u \in SyncUsers |-> IF u = 1 THEN a ELSE b] :
        a \in {ValidUser, ExpiredUser, NewUser,
               [ExpiredUser EXCEPT !.linkedin_refresh_token = "none"]},
        b \in {ValidUser, ExpiredUser}}

InitSyncRest ==
    /\ now = SyncStart
    /\ users \in SyncUserTables
    /\ InitIdle
    /\ InitLoop
    /\ InitLimiterIdle
    /\ InitAllocatorIdle
    /\ sync_pc = "idle"
    /\ sync_now = NULL
    /\ posts_to_sync = <<>>
    /\ user_at = 0
    /\ post_at = 0
    /\ sync_session = "ok"
    /\ uncommitted = NoUncommitted
    /\ sync_log = <<>>
    /\ sync_refreshes = <<>>

\* MaxPosts rows of every kind, the first of user 1; one API request is left
InitSyncTables ==
    /\ \E owner \in SyncUsers, v \in [PostIds -> SyncVariants] :
         LET author(p) == IF p = 1 THEN 1 ELSE owner
         IN  /\ posts = [p \in PostIds |-> StoredPost(v[p], author(p), SyncStart)]
             /\ analytics = SelectSeq(
                    [p \in PostIds |-> StoredRecord(v[p], p, author(p), SyncStart)],
                    LAMBDA r : r # NoRecord)
    /\ requests = MaxRequests - 1
    /\ sync_cycles = 0

\* a table with more rows than the limit: the first fresh rows are Published just
\* now, with the record of their publish, the others more than a week ago; the
\* rows up to split are of user 1. One cycle and no API request are explored on
\* this table.
BatchSplits == {0, 1, SYNC_LIMIT}
InitSyncBatch ==
    /\ \E fresh \in SYNC_LIMIT..(SYNC_LIMIT + MaxExtra), split \in BatchSplits :
         LET author(p) == IF p <= split THEN 1 ELSE 2
             v(p) == IF p <= fresh
                     THEN SyncVariant(PUBLISHED, 1, 0, "synced", 0, 0)
                     ELSE SyncVariant(PUBLISHED, 1, DAYS_PER_WEEK * MINUTES_PER_DAY + 1,
                                      "synced", MINUTES_PER_DAY, 0)
         IN  /\ posts = [p \in 1..(SYNC_LIMIT + MaxExtra) |->
                            StoredPost(v(p), author(p), SyncStart)]
             /\ analytics = [p \in 1..(SYNC_LIMIT + MaxExtra) |->
                                StoredRecord(v(p), p, author(p), SyncStart)]
    /\ requests = MaxRequests
    /\ sync_cycles = MaxSyncCycles - 1

InitSync ==
    /\ InitSyncRest
    /\ InitSyncTables \/ InitSyncBatch

NextSync ==
    \/ sync_query
    \/ \E token_data \in TokenOutcomes : sync_group(token_data)
    \/ \E resp \in AnalyticsResponses, commit_ok \in BOOLEAN : sync_item(resp, commit_ok)
    \/ \E u \in SyncUsers, p \in PostIds, update_data \in AnalyticsUpdates :
          update_post_analytics(u, p, update_data)

SpecSync == InitSync /\ [][NextSync]_vars

\* ------------------------------------------ middleware: rate limiting
\* client identifiers of _get_client_identifier: an authenticated user and an address
Clients == {"user:1", "ip:10.0.0.1"}

\* RATE_LIMIT_REQUESTS and RATE_LIMIT_PERIOD_SECONDS come from the environment;
\* redis_client is set when the cache module connected to Redis
LimiterSettings ==
    [RATE_LIMIT_REQUESTS : 1..MaxLimit, RATE_LIMIT_PERIOD_SECONDS : 1..MaxPeriod,
     redis_client : BOOLEAN]

\* the scores of the sorted set of a key; a key that does not exist is an empty set
ZSet(store, key) == IF key \in DOMAIN store THEN store[key] ELSE {}

\* the pipeline of the Redis branch, one MULTI/EXEC: zremrangebyscore(key, 0,
\* current_time - window_size) removes the scores up to and including that bound,
\* zcard counts what is left, zadd adds the member str(current_time) with the score
\* current_time whatever the answer will be; "return request_count <= max_requests".
\* expire(key, window_size) drops the key once no request came for window_size
\* seconds, when every score it holds is at or below the bound of the next removal.
RedisCheck(store, client_id, at, window_size, max_requests) ==
    LET kept == {score \in ZSet(store, client_id) : score > at - window_size}
        request_count == Cardinality(kept)
    IN  [allowed |-> request_count <= max_requests,
         store |-> (client_id :> (kept \cup {at})) @@ store]

\* a fallback that lets a request pass while the count has reached the limit
InMemoryCheck_inclusive(store, client_id, at, window_size, max_requests) ==
    IF client_id \in DOMAIN store
    THEN LET count == store[client_id][1]
             window_start == store[client_id][2]
         IN  IF at - window_start > window_size
             THEN [allowed |-> TRUE, store |-> [store EXCEPT ![client_id] = <<1, at>>]]
             ELSE IF count <= max_requests
             THEN [allowed |-> TRUE,
                   store |-> [store EXCEPT ![client_id] = <<count + 1, window_start>>]]
             ELSE [allowed |-> FALSE, store |-> store]
    ELSE [allowed |-> TRUE, store |-> (client_id :> <<1, at>>) @@ store]

\* the in-memory fallback: "Reset window if expired", "Increment count if within
\* window", "First request from this client"
InMemoryCheck(store, client_id, at, window_size, max_requests) ==
    IF client_id \in DOMAIN store
    THEN LET count == store[client_id][1]
             window_start == store[client_id][2]
         IN  IF at - window_start > window_size
             THEN [allowed |-> TRUE, store |-> [store EXCEPT ![client_id] = <<1, at>>]]
             ELSE IF count < max_requests
             THEN [allowed |-> TRUE,
                   store |-> [store EXCEPT ![client_id] = <<count + 1, window_start>>]]
             ELSE [allowed |-> FALSE, store |-> store]
    ELSE [allowed |-> TRUE, store |-> (client_id :> <<1, at>>) @@ store]

\* _check_rate_limit(client_id) for a request of the client.  redis_error: the
\* pipeline raises redis.RedisError, and the function falls back to the dictionary.
check_rate_limit(client_id, redis_error) ==
    /\ settings # NoSettings
    /\ Len(verdicts) < MaxChecks
    /\ redis_error => settings.redis_client
    /\ LET window_size == settings.RATE_LIMIT_PERIOD_SECONDS
           max_requests == settings.RATE_LIMIT_REQUESTS
           use_redis == settings.redis_client /\ ~redis_error
           from_redis == RedisCheck(redis_zsets, client_id, current_time, window_size,
                                    max_requests)
           from_memory == InMemoryCheck(in_memory_rate_limits, client_id, current_time,
                                        window_size, max_requests)
       IN  /\ redis_zsets' = IF use_redis THEN from_redis.store ELSE redis_zsets
           /\ in_memory_rate_limits' =
                 IF use_redis THEN in_memory_rate_limits ELSE from_memory.store
           /\ verdicts' = Append(verdicts,
                 [client_id |-> client_id, time |-> current_time,
                  backend |-> IF use_redis THEN "redis" ELSE "memory",
                  allowed |-> IF use_redis THEN from_redis.allowed
                              ELSE from_memory.allowed])
    /\ UNCHANGED <<settings, current_time>>
    /\ UNCHANGED <<service_vars, loop_vars, allocator_vars, sync_vars>>

\* a second passes
time_passes ==
    /\ settings # NoSettings
    /\ current_time < MaxTime
    /\ current_time' = current_time + 1
    /\ UNCHANGED <<settings, in_memory_rate_limits, redis_zsets, verdicts>>
    /\ UNCHANGED <<service_vars, loop_vars, allocator_vars, sync_vars>>

\* a server process after its start: nothing is stored for any client
InitLimiter ==
    /\ InitService
    /\ InitLoop
    /\ InitAllocatorIdle
    /\ InitSyncIdle
    /\ settings \in LimiterSettings
    /\ current_time = 1
    /\ in_memory_rate_limits = NoEntries
    /\ redis_zsets = NoEntries
    /\ verdicts = <<>>

NextLimiter ==
    \/ \E client_id \in Clients, redis_error \in BOOLEAN :
          check_rate_limit(client_id, redis_error)
    \/ time_passes

SpecLimiter == InitLimiter /\ [][NextLimiter]_vars

\* ------------------------------------------------------------ claims
\* the loop of worker w has iterated every row of its cycle
EndOfCycle(w) == pc[w] = "loop" /\ todo[w] = {}

\* the iteration of row p in the cycle of worker w is over
Finished(w, p) == p \in DOMAIN item_log[w] /\ p # post[w]

\* C1: once a worker loop has stored Published for a row, no step of a worker loop
\* (of the same cycle or of a later one) stores Failed for it
C1_PublishedNeverBackToFailed ==
    [][\A p \in DOMAIN posts :
         (/\ p \in published_by_worker
          /\ posts[p].status = PUBLISHED
          /\ \E w \in Workers : WorkerStep(w))
         => posts'[p].status # FAILED]_vars

\* C2: whenever a worker loop stores Published for a row, the stored status of the
\* row right before the write is Scheduled
C2_PublishedOnlyFromScheduled ==
    [][\A w \in Workers :
         commit_published(w, TRUE) => posts[post[w]].status = SCHEDULED]_vars

\* C3: between two explicit (re-)schedulings of a row the external create call
\* succeeds at most once for it, over all worker loops and manual publish requests
C3_NoDuplicateCreation == \A p \in PostIds : created[p] <= 1

\* a step of create_post, update_post, bulk_schedule_posts or of a worker cycle
LifecycleStep ==
    \/ \E u \in Users, t \in SchedTimes \cup {NULL} : create_post(u, t)
    \/ \E u \in Users, p \in PostIds, st \in UpdateStatuses, t \in UpdateTimes :
         update_post(u, p, st, t)
    \/ \E u \in Users, ids \in PostIdLists, ty \in ScheduleTypes, cfg \in ScheduleConfigs :
         bulk_schedule_posts(u, ids, ty, cfg)
    \/ \E w \in Workers : WorkerStep(w)

\* C4: under create_post, update_post, bulk_schedule_posts and worker cycles a
\* Published row stays Published, and a row enters Scheduled only from Draft or Failed
C4_PublishedTerminal ==
    [][LifecycleStep =>
         \A p \in DOMAIN posts :
            /\ posts[p].status = PUBLISHED => posts'[p].status = PUBLISHED
            /\ (posts'[p].status = SCHEDULED /\ posts[p].status # SCHEDULED)
                  => posts[p].status \in {DRAFT, FAILED}]_vars

\* C5: in every reachable state a row has a published_time exactly when its status
\* is Published
C5_PublishedTimeIffPublished ==
    \A p \in DOMAIN posts :
        (posts[p].published_time # NULL) <=> (posts[p].status = PUBLISHED)

\* C6: in every reachable state a row whose status is Scheduled, Published or Failed
\* has a scheduled_time
C6_ScheduledTimeSet ==
    \A p \in DOMAIN posts :
        posts[p].status \in {SCHEDULED, PUBLISHED, FAILED}
            => posts[p].scheduled_time # NULL

\* C7: the rows a cycle that starts at now selects are exactly the Scheduled rows with
\* now - 5 < scheduled_time <= now + 5 (exactly 5 minutes overdue: not selected;
\* exactly 5 minutes ahead: selected), and a cycle iterates selected rows only
C7_DueWindow ==
    [][\A w \in Workers :
         /\ query_due(w) =>
              \A p \in DOMAIN posts :
                 p \in scheduled_posts'[w] <=>
                    /\ posts[p].status = SCHEDULED
                    /\ posts[p].scheduled_time # NULL
                    /\ now - 5 < posts[p].scheduled_time
                    /\ posts[p].scheduled_time <= now + 5
         /\ DOMAIN item_log'[w] \subseteq scheduled_posts'[w]
         /\ todo'[w] \subseteq scheduled_posts'[w]]_vars

\* a cycle selected a row due exactly 5 minutes ahead, left out a Scheduled row that is
\* exactly 5 minutes overdue, and has iterated the selected row
C7_Witness ==
    \E w \in Workers :
        /\ EndOfCycle(w)
        /\ \E p \in DOMAIN item_log[w] : posts[p].scheduled_time = cycle_now[w] + 5
        /\ \E q \in DOMAIN posts \ scheduled_posts[w] :
              /\ posts[q].status = SCHEDULED
              /\ posts[q].scheduled_time = cycle_now[w] - 5

\* C8: at the end of a cycle every row whose publish call succeeded is Published, with
\* published_time the cycle's now, the returned id and URL stored, and exactly one
\* analytics row
C8_PublishSuccessStored ==
    \A w \in Workers :
        EndOfCycle(w) =>
           \A p \in DOMAIN item_log[w] :
              item_log[w][p].publish_ok =>
                 /\ posts[p].status = PUBLISHED
                 /\ posts[p].published_time = cycle_now[w]
                 /\ posts[p].linkedin_post_id = item_log[w][p].response.id
                 /\ posts[p].linkedin_share_url = item_log[w][p].response.shareUrl
                 /\ Cardinality(AnalyticsOf(p)) = 1

C12_NoAutomaticRetry ==
    [][\A w \in Workers :
         /\ query_due(w) =>
               \A p \in DOMAIN posts :
                  posts[p].status = FAILED => p \notin scheduled_posts'[w]
         /\ WorkerStep(w) =>
               \A p \in DOMAIN posts :
                  /\ posts[p].status = FAILED => posts'[p] = posts[p]
                  /\ posts'[p].status = SCHEDULED => posts[p].status = SCHEDULED]_vars

\* shutdown was requested: the flag is cleared or the task was cancelled
ShutdownRequested == ~running \/ shutdown

\* C13: an exception a cycle raises in the publish or the sync phase is caught and the
\* loop backs off; the loop task ends only after shutdown was requested; and after a
\* backoff (as after the regular sleep) a further cycle starts unless shutdown was
\* requested
C13_BadCycleNeverTerminates ==
    /\ [][phase_raises => loop_pc' = "backoff"]_vars
    /\ [][(loop_pc # "exited" /\ loop_pc' = "exited") =>
             (~running \/ shutdown')]_vars
    /\ \A at \in {"backoff", "sleep"} :
          (loop_pc = at) ~> (loop_pc = "publish" \/ ShutdownRequested)

\* a cycle raised, the loop backed off, and a later cycle is running with no shutdown
\* requested
C13_Witness ==
    /\ raised # 0
    /\ cycles > raised
    /\ loop_pc = "publish"
    /\ ~ShutdownRequested

\* C14: once shutdown is requested the loop starts no new cycle at its next check of
\* the flag (a cancelled task has ended), it eventually exits, and it never ends
\* between the publish call of a row and the commit of the row's status
C14_CooperativeShutdown ==
    /\ [][(loop_pc = "check" /\ ~running) => loop_pc' \in {"check", "exited"}]_vars
    /\ [](shutdown => loop_pc = "exited")
    /\ [][(loop_pc # "exited" /\ loop_pc' = "exited") =>
             (in_flight = "none" /\ loop_pc \in {"created", "check", "sleep", "backoff"})]_vars
    /\ [](loop_pc = "exited" => in_flight = "none")
    /\ [][in_flight = "called" =>
             (in_flight' = "called" \/ item_commit \/ item_abort)]_vars
    /\ ShutdownRequested ~> (loop_pc = "exited")

\* the signal arrived between the publish call of a row and its commit; the loop
\* finished the row and the cycle, and has exited at its next check
C14_Witness ==
    /\ signalled = "called"
    /\ ~running
    /\ loop_pc = "exited"
    /\ in_flight = "none"

\* the call was evaluated and returned a schedule
Allocated == result.status = "ok"

\* the times of the returned schedule
AllocatedTimes == {result.schedule[k][2] : k \in DOMAIN result.schedule}

\* C15: every timestamp a bulk scheduling call returns, whatever the strategy, is
\* strictly later than the utcnow() of the call
C15_NeverIntoThePast ==
    Allocated => \A t \in AllocatedTimes : t > request.now

\* C16: every timestamp the strategies specific_days and optimal_times return is
\* strictly later than the utcnow() of the call; a slot at exactly now is left out
C16_SearchStrategiesInFuture ==
    (Allocated /\ request.schedule_type \in {"specific_days", "optimal_times"}) =>
        \A t \in AllocatedTimes : t > request.now

\* specific_days at Tuesday 09:00 with the slot "09:00": today's slot is not later
\* than now, the first row got the slot of the next Tuesday
C16_Witness ==
    /\ Allocated
    /\ request.schedule_type = "specific_days"
    /\ request.cfg.days = <<"Tuesday">>
    /\ \E k \in DOMAIN request.cfg.time_slots :
          AtSlot(DateOf(request.now), request.cfg.time_slots[k]) = request.now
    /\ result.schedule # <<>>
    /\ result.schedule[1][2] > request.now + MINUTES_PER_DAY

\* the candidates of the call, counted without running the strategy: M
Candidates ==
    LET cfg == request.cfg
        today == DateOf(request.now)
    IN  CASE request.schedule_type = "specific_days" ->
               Cardinality({<<d, k>> \in
                     (today..(today + 7 * cfg.weeks_ahead)) \X DOMAIN cfg.time_slots :
                        /\ \E j \in DOMAIN cfg.days :
                              /\ cfg.days[j] \in DOMAIN day_map
                              /\ day_map[cfg.days[j]] = d % 7
                        /\ AtSlot(d, cfg.time_slots[k]) > request.now})
          [] request.schedule_type = "optimal_times" ->
               Cardinality({<<d, h>> \in (0..(cfg.days_ahead - 1)) \X {9, 12, 17, 20} :
                        (today + d) * 1440 + h * 60 > request.now})
          [] request.schedule_type = "evenly_spaced" ->
               IF cfg.end_date < cfg.start_date THEN 0
               ELSE (cfg.end_date - cfg.start_date + 1) * Len(cfg.time_slots)
          [] OTHER -> 0

\* the call falls under C17: the rows match the ids, and the strategy is specific_days,
\* optimal_times, or evenly_spaced unless it takes the dense branch (a period of at
\* least one day with more rows than days * len(time_slots))
UnderAllocationCase ==
    /\ result.status \in {"ok", "raised"}
    /\ \/ request.schedule_type \in {"specific_days", "optimal_times"}
       \/ /\ request.schedule_type = "evenly_spaced"
          /\ \/ request.cfg.end_date < request.cfg.start_date
             \/ Len(request.rows) <= Candidates

\* C17: a call of specific_days, optimal_times or the sparse form of evenly_spaced with
\* N rows and M candidates does not raise and returns exactly min(N, M) assignments
C17_UnderAllocation ==
    UnderAllocationCase =>
        /\ result.status = "ok"
        /\ Len(result.schedule) = Min(Len(request.rows), Candidates)

\* evenly_spaced took the branch posts_per_day <= len(time_slots)
SparseBranch ==
    /\ Allocated
    /\ request.schedule_type = "evenly_spaced"
    /\ PostsPerDayFits(Len(request.rows),
                       request.cfg.end_date - request.cfg.start_date + 1,
                       request.cfg.time_slots)

NoSharedTimestamp ==
    \A j \in DOMAIN result.schedule, k \in DOMAIN result.schedule :
        j # k => result.schedule[j][2] # result.schedule[k][2]

\* C18: evenly_spaced in its sparse branch (posts_per_day <= len(time_slots)) with
\* pairwise distinct time slots, that is slots that denote pairwise distinct times of
\* day, gives no two rows the same timestamp
C18_DistinctTimesOfDay ==
    (/\ SparseBranch
     /\ \A j \in DOMAIN request.cfg.time_slots, k \in DOMAIN request.cfg.time_slots :
           j # k => AtSlot(0, request.cfg.time_slots[j]) # AtSlot(0, request.cfg.time_slots[k])) =>
        NoSharedTimestamp

\* two rows were spread over two days with one slot a day
C18_Witness ==
    /\ SparseBranch
    /\ Len(request.cfg.time_slots) = 1
    /\ Len(result.schedule) = 2
    /\ result.schedule[2][2] = result.schedule[1][2] + MINUTES_PER_DAY

\* C19: the k-th assignment of the returned schedule carries the k-th id of the
\* request
C19_CallerOrderPreserved ==
    Allocated =>
        \A k \in DOMAIN result.schedule : result.schedule[k][1] = request.post_ids[k]

\* the request names a strategy the function does not know, or a weekday that is no
\* weekday
InvalidConfiguration ==
    \/ request.schedule_type \notin {"none", "evenly_spaced", "specific_days", "optimal_times"}
    \/ /\ request.schedule_type = "specific_days"
       /\ \E j \in DOMAIN request.cfg.days :
             request.cfg.days[j] \notin {"Monday", "Tuesday", "Wednesday", "Thursday",
                                         "Friday", "Saturday", "Sunday"}

\* C20: a call with an unrecognized strategy or an unknown weekday name ends in the
\* validation error (None, HTTP 400), never in a returned schedule, and sets the
\* time and status of no row
C20_InvalidConfigurationRejected ==
    (InvalidConfiguration /\ result # NoResult) =>
        /\ result.status = "invalid"
        /\ result.updated = {}

\* C21: a bulk scheduling call changes exactly the rows of the returned schedule:
\* each of them is Scheduled with the returned time, and every other row, of the
\* batch or not, keeps its status and its scheduled_time
C21_AllocationFrame ==
    [][allocate =>
         \A p \in DOMAIN posts :
            IF \E k \in DOMAIN result'.schedule : result'.schedule[k][1] = p
            THEN \E k \in DOMAIN result'.schedule :
                    /\ result'.schedule[k][1] = p
                    /\ posts'[p].status = SCHEDULED
                    /\ posts'[p].scheduled_time = result'.schedule[k][2]
            ELSE /\ posts'[p].status = posts[p].status
                 /\ posts'[p].scheduled_time = posts[p].scheduled_time]_vars

\* a call for two rows returned one assignment: the assigned row is Scheduled at the
\* returned time, the other row of the batch is still the Draft it was
C21_Witness ==
    /\ Allocated
    /\ Len(request.rows) = 2
    /\ Len(result.schedule) = 1
    /\ posts[result.schedule[1][1]].status = SCHEDULED
    /\ posts[result.schedule[1][1]].scheduled_time = result.schedule[1][2]
    /\ \E p \in Range(request.rows) :
          /\ p # result.schedule[1][1]
          /\ posts[p].status = DRAFT
          /\ posts[p].scheduled_time = NULL

\* C22: in the sparse branch of evenly_spaced with S slots the i-th item of the
\* request (counted from 0) gets the day start_date + floor(i / S) at slot i mod S,
\* and all N items are assigned when N <= days * S
C22_SparseLayout ==
    SparseBranch =>
        LET cfg == request.cfg
            S == Len(cfg.time_slots)
            days == cfg.end_date - cfg.start_date + 1
        IN  /\ \A k \in DOMAIN result.schedule :
                  /\ result.schedule[k][1] = request.post_ids[k]
                  /\ result.schedule[k][2] =
                        (cfg.start_date + (k - 1) \div S) * MINUTES_PER_DAY
                        + int(cfg.time_slots[((k - 1) % S) + 1][1]) * MINUTES_PER_HOUR
                        + int(cfg.time_slots[((k - 1) % S) + 1][2])
            /\ (days > 0 /\ Len(request.post_ids) <= days * S) =>
                  Len(result.schedule) = Len(request.post_ids)

\* the call was evaluated for an evenly_spaced request whose rows match its ids and
\* whose posts_per_day exceeds len(time_slots)
DenseCase ==
    /\ result # NoResult
    /\ result.status # "invalid"
    /\ request.schedule_type = "evenly_spaced"
    /\ request.cfg.end_date - request.cfg.start_date + 1 > 0
    /\ ~PostsPerDayFits(Len(request.rows),
                        request.cfg.end_date - request.cfg.start_date + 1,
                        request.cfg.time_slots)

\* the day of the i-th of N rows (i counted from 0) in a period of days days
DenseDay(i, N, days) == request.cfg.start_date + (i * days) \div N

\* C33: in the dense branch of evenly_spaced every one of the N items is assigned,
\* the i-th item of the request (counted from 0) gets the day
\* start_date + floor(i * days / N) at the first time slot, and that day lies between
\* start_date and end_date
C33_DenseLayout ==
    DenseCase =>
        LET cfg == request.cfg
            N == Len(request.post_ids)
            days == cfg.end_date - cfg.start_date + 1
        IN  /\ result.status = "ok"
            /\ Len(result.schedule) = N
            /\ \A k \in 1..N :
                  /\ result.schedule[k][1] = request.post_ids[k]
                  /\ result.schedule[k][2] =
                        AtSlot(DenseDay(k - 1, N, days), cfg.time_slots[1])
                  /\ DenseDay(k - 1, N, days) \in cfg.start_date..cfg.end_date
                  /\ k > 1 => DenseDay(k - 2, N, days) <= DenseDay(k - 1, N, days)

\* the layout of C33 by the position of the row in the result of the query, for a
\* request that names at least one time slot
C33_DenseLayoutByRow ==
    (DenseCase /\ request.cfg.time_slots # <<>>) =>
        LET cfg == request.cfg
            N == Len(request.rows)
            days == cfg.end_date - cfg.start_date + 1
        IN  /\ result.status = "ok"
            /\ Len(result.schedule) = N
            /\ \A k \in 1..N :
                  /\ result.schedule[k][1] = request.rows[k]
                  /\ result.schedule[k][2] =
                        AtSlot(DenseDay(k - 1, N, days), cfg.time_slots[1])
                  /\ DenseDay(k - 1, N, days) \in cfg.start_date..cfg.end_date
                  /\ k > 1 => DenseDay(k - 2, N, days) <= DenseDay(k - 1, N, days)

\* three rows over two days with one slot: the third row is on the second day
C33_DenseReached ==
    /\ DenseCase
    /\ Len(result.schedule) = 3
    /\ result.schedule[3][2] = result.schedule[1][2] + MINUTES_PER_DAY

\* the call returned a schedule of the strategy specific_days
SpecificDaysCase == Allocated /\ request.schedule_type = "specific_days"

\* every returned time is on a weekday of the set and not after the end of the day
\* now.date() + 7 * weeks_ahead
OnChosenDays ==
    \A k \in DOMAIN result.schedule :
        /\ Weekday(DateOf(result.schedule[k][2])) \in Weekdays(request.cfg.days)
        /\ DateOf(result.schedule[k][2]) <=
              DateOf(request.now) + DAYS_PER_WEEK * request.cfg.weeks_ahead

Chronological ==
    \A k \in DOMAIN result.schedule :
        k > 1 => result.schedule[k - 1][2] < result.schedule[k][2]

\* C34: the times specific_days returns are strictly increasing in the order of the
\* returned list, whatever the weekdays and the list of time slots, each on a weekday of
\* the set and none after the end of the day now + 7 * weeks_ahead days
C34_SpecificDaysChronological ==
    SpecificDaysCase => (Chronological /\ OnChosenDays)

\* the statement of C34 for lists of time slots that are strictly increasing as times
\* of day
C34_ChronologicalForSortedSlots ==
    (/\ SpecificDaysCase
     /\ \A j \in DOMAIN request.cfg.time_slots :
           j > 1 => AtSlot(0, request.cfg.time_slots[j - 1])
                      < AtSlot(0, request.cfg.time_slots[j])) =>
        (Chronological /\ OnChosenDays)

\* two rows got the two slots of one day in the order of the list
C34_TwoSlotsReached ==
    /\ SpecificDaysCase
    /\ Len(result.schedule) = 2
    /\ DateOf(result.schedule[1][2]) = DateOf(result.schedule[2][2])

\* the request names no id, an id that matches no row, or the id of a row of another
\* account
OwnershipFails ==
    \/ request.post_ids = <<>>
    \/ \E k \in DOMAIN request.post_ids :
          \/ ~PostExists(request.post_ids[k])
          \/ posts[request.post_ids[k]].author_id # Caller

\* C36: a call whose list of ids is empty or names a row that does not exist or is
\* not the caller's ends in the validation error (None, HTTP 400) and changes the
\* status and the scheduled_time of no row
C36_OwnershipAllOrNothing ==
    [][(OwnershipFails /\ result' # result) =>
          /\ result'.status = "invalid"
          /\ \A p \in DOMAIN posts :
                /\ posts'[p].status = posts[p].status
                /\ posts'[p].scheduled_time = posts[p].scheduled_time]_vars

\* a call for a Draft of the caller and a Draft of another account was refused, both
\* rows are Drafts without a time
C36_Witness ==
    /\ result.status = "invalid"
    /\ Len(request.post_ids) = 2
    /\ Len(request.rows) = 1
    /\ \E p \in Range(request.post_ids) :
          /\ PostExists(p)
          /\ posts[p].author_id # Caller
    /\ \A p \in Range(request.post_ids) :
          /\ PostExists(p)
          /\ posts[p].status = DRAFT
          /\ posts[p].scheduled_time = NULL

Fetched == {p \in DOMAIN sync_log : sync_log[p].fetch # "none"}

\* the cycle that was started is over
SyncOver == sync_pc = "idle" /\ sync_now # NULL

OneWeek == DAYS_PER_WEEK * MINUTES_PER_DAY

\* C23: in one cycle get_post_analytics is called for at most SYNC_LIMIT rows,
\* all groups together
C23_AtMostLimitFetches == Cardinality(Fetched) <= SYNC_LIMIT

\* more rows than the limit matched the query, and the cycle fetched SYNC_LIMIT
\* rows of two users
C23_Witness ==
    /\ SyncOver
    /\ Cardinality(SyncCandidates(sync_now)) > SYNC_LIMIT
    /\ Cardinality(Fetched) = SYNC_LIMIT
    /\ \E p \in Fetched, q \in Fetched : posts[p].author_id # posts[q].author_id

\* the rows the selection policy names: Published within the last day, or Published
\* within the last week with a record whose last_synced is a day old or not set
PolicySelection(at) ==
    {p \in DOMAIN posts :
        /\ posts[p].status = PUBLISHED
        /\ posts[p].published_time # NULL
        /\ \/ posts[p].published_time >= at - MINUTES_PER_DAY
           \/ /\ posts[p].published_time >= at - OneWeek
              /\ \E r \in RecordsOf(p) :
                    r.last_synced = NULL \/ r.last_synced <= at - MINUTES_PER_DAY}

\* C24: when at most SYNC_LIMIT rows qualify, the rows a cycle selects are exactly
\* the rows of the selection policy
C24_SelectionPolicy ==
    [][(sync_query /\ Cardinality(PolicySelection(now)) <= SYNC_LIMIT)
          => Range(posts_to_sync') = PolicySelection(now)]_vars

\* C25: a row published more than a week before the now of the cycle is neither
\* selected nor fetched in the cycle
C25_NothingOlderThanAWeek ==
    \A p \in Range(posts_to_sync) \cup Fetched :
        posts[p].published_time >= sync_now - OneWeek

\* a Published row that is older than a week and has a record last synced a day
\* before was left out by a cycle that fetched the other row
C25_Witness ==
    /\ SyncOver
    /\ Fetched # {}
    /\ \E p \in DOMAIN posts :
          /\ posts[p].status = PUBLISHED
          /\ posts[p].linkedin_post_id # NULL
          /\ posts[p].published_time < sync_now - OneWeek
          /\ \E r \in RecordsOf(p) : r.last_synced <= sync_now - MINUTES_PER_DAY
          /\ p \notin Fetched

\* C26: the record a sync has just stored has an engagement_rate >= 0, which is 0
\* when its impressions is 0, whatever syncs and updates of the record came before
C26_RateOfZeroImpressions ==
    [][\A p \in DOMAIN sync_log' :
          (/\ sync_pc = "posts"
           /\ sync_log'[p].outcome = "synced"
           /\ sync_log[p].outcome # "synced")
             => \A i \in DOMAIN analytics' :
                   analytics'[i].post_id = p =>
                      /\ analytics'[i].engagement_rate >= 0
                      /\ (analytics'[i].impressions = 0
                             => analytics'[i].engagement_rate = 0)]_vars

\* C27: after a cycle in which no commit failed, every row whose fetch returned has
\* a record with the fetched likes, comments and shares and last_synced = the now
\* of the cycle
C27_FetchedValuesStored ==
    (SyncOver /\ sync_session = "ok") =>
        \A p \in DOMAIN sync_log :
            sync_log[p].fetch = "ok" =>
                \E i \in AnalyticsOf(p) :
                    /\ analytics[i].likes = sync_log[p].data.likes
                    /\ analytics[i].comments = sync_log[p].data.comments
                    /\ analytics[i].shares = sync_log[p].data.shares
                    /\ analytics[i].last_synced = sync_now

\* C28: in one cycle refresh_access_token is called at most once for a user
C28_OneRefreshPerAccount ==
    \A u \in DOMAIN sync_refreshes : sync_refreshes[u] <= 1

\* the token of a user was refreshed in a cycle that fetched two rows of the user
C28_Witness ==
    /\ SyncOver
    /\ \E u \in DOMAIN sync_refreshes :
          /\ sync_refreshes[u] = 1
          /\ Cardinality({p \in Fetched : posts[p].author_id = u}) >= 2

\* C29: at the end of a cycle every selected row was processed (fetched, and
\* stored or failed on its own), or was skipped because its user has no usable
\* token; no row is left out because of another row
C29_SyncFailureIsolation ==
    SyncOver =>
        \A p \in Range(posts_to_sync) :
            sync_log[p].outcome \in
                {"synced", "fetch_failed", "update_failed",
                 "no_access_token", "expired_no_refresh_token", "expired"}

\* a step of sync_post_analytics
SyncStep ==
    \/ sync_query
    \/ \E token_data \in TokenOutcomes : sync_group(token_data)
    \/ \E resp \in AnalyticsResponses, commit_ok \in BOOLEAN : sync_item(resp, commit_ok)

\* C35: a step of the analytics sync leaves every post as it is (status,
\* scheduled_time and published_time included), deletes no analytics record and
\* leaves the post, the user, the impressions and the clicks of every existing record
\* as they are; it changes the token fields of a user only if the token had expired
C35_SyncFrame ==
    [][SyncStep =>
          /\ posts' = posts
          /\ Len(analytics') >= Len(analytics)
          /\ \A i \in DOMAIN analytics :
                /\ analytics'[i].post_id = analytics[i].post_id
                /\ analytics'[i].user_id = analytics[i].user_id
                /\ analytics'[i].impressions = analytics[i].impressions
                /\ analytics'[i].clicks = analytics[i].clicks
          /\ \A u \in DOMAIN users :
                users'[u] # users[u] => TokenExpired(users[u], sync_now)]_vars

\* a cycle is over that synced a record with 4 impressions and 4 clicks: the counters
\* of LinkedIn and the stamp are stored, impressions and clicks are still 4
C35_Witness ==
    /\ SyncOver
    /\ \E p \in DOMAIN sync_log, i \in DOMAIN analytics :
          /\ sync_log[p].outcome = "synced"
          /\ sync_log[p].data = SomeData
          /\ analytics[i].post_id = p
          /\ analytics[i].last_synced = sync_now
          /\ analytics[i].likes = SomeData.likes
          /\ analytics[i].impressions = 4
          /\ analytics[i].clicks = 4

\* ---- token refresh
\* worker w takes row p as the next row of its cycle
Begins(w, p) ==
    /\ pc[w] = "loop"
    /\ p \in todo[w]
    /\ p \notin todo'[w]

\* worker w ends the refresh of its current row with a token_data that has all fields
RefreshSucceeds(w) == pc[w] = "refresh" /\ pc'[w] = "publish"

\* worker w builds the client and makes the publish call of a row it refreshed for
PublishesAfterRefresh(w) ==
    /\ pc[w] = "publish"
    /\ pc'[w] # "publish"
    /\ "refresh" \in item_log[w][post[w]].calls

\* the stored credential of u after the step is the one of a complete token_data:
\* the new access token, the new refresh token if there is one and else the previous
\* one, the expiry at + expires_in
StoredAsRefreshed(u, at) ==
    \E token_data \in {t \in TokenOutcomes : t.kind = "ok"} :
        /\ users'[u].linkedin_access_token = token_data.access_token
        /\ users'[u].linkedin_refresh_token =
              IF token_data.refresh_token # "none" THEN token_data.refresh_token
              ELSE users[u].linkedin_refresh_token
        /\ users'[u].linkedin_token_expires_at = at + token_data.expires_in

SyncGroupUser == Keys(posts_to_sync, {})[user_at]

\* the statement of C37 for the analytics sync: the head of a group attempts a refresh
\* exactly when the session is usable, the user has an access token and a refresh
\* token and the expiry is set and not after the cycle's now; a refresh that succeeds
\* stores the credential of the token_data and the loop over the rows is entered
C37_SyncRefresh ==
    [][(\E token_data \in TokenOutcomes : sync_group(token_data)) =>
          LET u == SyncGroupUser
              user == users[u]
          IN  /\ (sync_refreshes'[u] = sync_refreshes[u] + 1) <=>
                    /\ sync_session = "ok"
                    /\ user.linkedin_access_token # "none"
                    /\ user.linkedin_refresh_token # "none"
                    /\ TokenExpired(user, sync_now)
              /\ sync_refreshes'[u] \in {sync_refreshes[u], sync_refreshes[u] + 1}
              /\ (sync_refreshes'[u] # sync_refreshes[u] /\ sync_pc' = "posts") =>
                    StoredAsRefreshed(u, sync_now)
              /\ users'[u] # users[u] => sync_pc' = "posts"]_vars

\* worker w ends the refresh of its current row in the except branch
RefreshFails(w) == pc[w] = "refresh" /\ pc'[w] = "loop"

\* C38: a token refresh that fails (the call raises, or token_data lacks
\* "access_token" or "expires_in") leaves the stored access token, refresh token and
\* expiry of the account as they were before the attempt
C38_FailedRefreshKeepsCredential ==
    [][\A w \in Workers : RefreshFails(w) => users' = users]_vars

\* the part of C38 that holds: a failed refresh never changes the stored expiry, and
\* it stores either nothing or the tokens of a token_data without "expires_in"
C38_FailedRefreshKeepsExpiry ==
    [][\A w \in Workers :
         RefreshFails(w) =>
            LET u == posts[post[w]].author_id
            IN  /\ users'[u].linkedin_token_expires_at = users[u].linkedin_token_expires_at
                /\ \/ users' = users
                   \/ users'[u].linkedin_access_token = REFRESHED_TOKEN]_vars

\* the account worker loop w has a token refresh in progress for (0: none)
Refreshing(w) == IF pc[w] = "refresh" THEN posts[post[w]].author_id ELSE 0

\* C31: no two worker loops have a token refresh in progress for the same account at
\* the same time
C31_OneRefreshAtATime ==
    \A v \in Workers, w \in Workers :
        (v # w /\ Refreshing(v) # 0) => Refreshing(v) # Refreshing(w)

\* ---- rate limiting
\* the check that was served last, and whether that was in this step
LastVerdict == verdicts[Len(verdicts)]
Checked == Len(verdicts') = Len(verdicts) + 1
CheckedInMemory == Checked /\ verdicts'[Len(verdicts')].backend = "memory"

\* requests of the client the backend allowed at times from lo to hi
AllowedBetween(backend, client_id, lo, hi) ==
    {k \in DOMAIN verdicts :
        /\ verdicts[k].backend = backend
        /\ verdicts[k].client_id = client_id
        /\ verdicts[k].allowed
        /\ lo <= verdicts[k].time
        /\ verdicts[k].time <= hi}

\* the count of each stored window is the number of requests the fallback allowed
\* from the start of the window to its expiry, and is at most RATE_LIMIT_REQUESTS
WindowCounts ==
    \A client_id \in DOMAIN in_memory_rate_limits :
        LET count == in_memory_rate_limits[client_id][1]
            window_start == in_memory_rate_limits[client_id][2]
        IN  /\ count <= settings.RATE_LIMIT_REQUESTS
            /\ Cardinality(AllowedBetween("memory", client_id, window_start,
                     window_start + settings.RATE_LIMIT_PERIOD_SECONDS)) = count

\* C39: the in-memory limiter allows each client at most RATE_LIMIT_REQUESTS requests
\* from the start of a window to its expiry RATE_LIMIT_PERIOD_SECONDS later; a request
\* it denies leaves the stored count and window start as they are; the first request
\* after the window has expired is allowed and starts a window with count 1
C39_InMemoryWindow ==
    /\ []WindowCounts
    /\ [][CheckedInMemory =>
            LET answer == verdicts'[Len(verdicts')]
                client_id == answer.client_id
            IN  /\ ~answer.allowed => in_memory_rate_limits' = in_memory_rate_limits
                /\ (/\ client_id \in DOMAIN in_memory_rate_limits
                    /\ current_time - in_memory_rate_limits[client_id][2]
                          > settings.RATE_LIMIT_PERIOD_SECONDS) =>
                      /\ answer.allowed
                      /\ in_memory_rate_limits'[client_id] = <<1, current_time>>]_vars

\* with a limit of 2 and a period of 1 second a client was allowed twice, denied in
\* the same window, and allowed again 2 seconds after the start of the window, which
\* started a new window
C39_Witness ==
    /\ settings.RATE_LIMIT_REQUESTS = 2
    /\ settings.RATE_LIMIT_PERIOD_SECONDS = 1
    /\ Len(verdicts) = 4
    /\ \A k \in 1..4 : verdicts[k].backend = "memory" /\ verdicts[k].client_id = "user:1"
    /\ verdicts[1].allowed /\ verdicts[2].allowed
    /\ ~verdicts[3].allowed
    /\ verdicts[3].time <= verdicts[1].time + 1
    /\ verdicts[4].allowed
    /\ verdicts[4].time = verdicts[1].time + 2
    /\ in_memory_rate_limits["user:1"] = <<1, verdicts[4].time>>

\* C40: among the requests of a client the Redis-backed limiter allows, at most
\* RATE_LIMIT_REQUESTS lie in any window of RATE_LIMIT_PERIOD_SECONDS that ends with
\* one of them
C40_RedisTrailingWindow ==
    \A k \in DOMAIN verdicts :
        (verdicts[k].backend = "redis" /\ verdicts[k].allowed) =>
            Cardinality(AllowedBetween("redis", verdicts[k].client_id,
                            verdicts[k].time - settings.RATE_LIMIT_PERIOD_SECONDS + 1,
                            verdicts[k].time))
               <= settings.RATE_LIMIT_REQUESTS

\* what the Redis branch enforces: the allowed requests of a window were made at no
\* more than RATE_LIMIT_REQUESTS + 1 different times
C40_RedisAllowsOneMore ==
    \A k \in DOMAIN verdicts :
        (verdicts[k].backend = "redis" /\ verdicts[k].allowed) =>
            Cardinality({verdicts[j].time : j \in
                            AllowedBetween("redis", verdicts[k].client_id,
                               verdicts[k].time - settings.RATE_LIMIT_PERIOD_SECONDS + 1,
                               verdicts[k].time)})
               <= settings.RATE_LIMIT_REQUESTS + 1

\* ---- due items
\* row p is Scheduled with a time later than the look-behind bound of a cycle that
\* starts now
DueOrAhead(p) ==
    /\ PostExists(p)
    /\ posts[p].status = SCHEDULED
    /\ posts[p].scheduled_time # NULL
    /\ posts[p].scheduled_time > now - WINDOW_MINUTES

Resolved(p) == PostExists(p) /\ posts[p].status \in {PUBLISHED, FAILED}

Selected(p) == \E w \in Workers : p \in scheduled_posts[w]

\* C32: every row that is Scheduled with a scheduled_time later than the look-behind
\* bound of the running cycle is selected by a cycle and ends it Published or Failed
C32_DueItemsResolved ==
    \A p \in PostIds : DueOrAhead(p) ~> Resolved(p)

\* the part of C32 that holds: a Scheduled row whose time is not before the
\* look-ahead bound now + 5 minutes is selected by a cycle
C32_AheadItemsSelected ==
    \A p \in PostIds :
        (DueOrAhead(p) /\ posts[p].scheduled_time >= now + WINDOW_MINUTES) ~> Selected(p)

=============================================================================
